---- MODULE Spec2Model ----
(***************************************************************************)
(* Model of the structure-driven binary decoder of binrev                  *)
(* (BinaryParser, utils/binaryParser.ts, with utils/dataTypes.ts and       *)
(* utils/fileReader.ts).                                                    *)
(*                                                                         *)
(* A FieldDefinition is a record that carries exactly the attributes the   *)
(* descriptor defines: an attribute that is `undefined` in the source is   *)
(* absent from the record, and `x !== undefined` is "x" \in DOMAIN d.      *)
(* A ParsedField is a record definition/value/rawValue/offset/length, with *)
(* the optional field children.  A JavaScript value is a tagged record     *)
(* (kind, n, s, text, items).  Text produced by TextDecoder or by the hex  *)
(* dump is the sequence of its code points (s); literal strings of the     *)
(* definitions (labels, error messages) are kept as strings (text).        *)
(* The floating point kinds are outside the modelled inputs, and so are    *)
(* complete 64 bit values and unsigned 32 bit values from 2^31 on (numbers *)
(* here are 32 bit signed integers).                                       *)
(***************************************************************************)
EXTENDS Integers, Sequences, FiniteSets, TLC

\* Bounds of the explored inputs.
MaxFileSize == 3
MaxFields == 2
\* the parseSubstructure calls the call stack has room for: more than a
\* decode that comes to an end nests over the explored files
MaxCallDepth == 3

(***************************************************************************)
(* JavaScript values                                                       *)
(***************************************************************************)
NullValue == [kind |-> "null", n |-> 0, s |-> <<>>, text |-> "", items |-> <<>>]
NumberValue(v) == [kind |-> "number", n |-> v, s |-> <<>>, text |-> "", items |-> <<>>]
BigIntValue(v) == [kind |-> "bigint", n |-> v, s |-> <<>>, text |-> "", items |-> <<>>]
\* a string given by its code points
TextValue(codes) == [kind |-> "string", n |-> 0, s |-> codes, text |-> "", items |-> <<>>]
\* a string given literally
StringValue(str) == [kind |-> "string", n |-> 0, s |-> <<>>, text |-> str, items |-> <<>>]
BytesValue(data) == [kind |-> "Uint8Array", n |-> 0, s |-> data, text |-> "", items |-> <<>>]
ArrayValue(vs) == [kind |-> "array", n |-> 0, s |-> <<>>, text |-> "", items |-> vs]

\* number | null, as a sequence of at most one element
Null == <<>>
Some(v) == <<v>>

\* a promise that rejects / an exception that propagates
Rejected(why) == [rejected |-> why]
IsRejected(r) == "rejected" \in DOMAIN r
\* an exception raised by a synchronous helper
Thrown(msg) == [thrown |-> msg]
IsThrown(r) == "thrown" \in DOMAIN r

Min(a, b) == IF a < b THEN a ELSE b

\* The number NaN, kept apart from every integer a pass computes from the
\* explored bytes.  a + NaN and Math.min(a, NaN) are NaN, a comparison with
\* NaN is false, and a Blob.slice bound that is NaN is 0.
NaN == -1000000000
Plus(a, b) == IF a = NaN \/ b = NaN THEN NaN ELSE a + b
MathMin(a, b) == IF a = NaN \/ b = NaN THEN NaN ELSE Min(a, b)
LessThan(a, b) == a # NaN /\ b # NaN /\ a < b
SliceBound(p) == IF p = NaN THEN 0 ELSE p
Max(a, b) == IF a > b THEN a ELSE b

\* `x` as a truthy optional attribute of a definition
Has(definition, attr) == attr \in DOMAIN definition

(***************************************************************************)
(* utils/dataTypes.ts                                                      *)
(***************************************************************************)
DATA_TYPES ==
  [uint8  |-> [name |-> "UInt8",  size |-> Some(1)],
   uint16 |-> [name |-> "UInt16", size |-> Some(2)],
   uint32 |-> [name |-> "UInt32", size |-> Some(4)],
   uint64 |-> [name |-> "UInt64", size |-> Some(8)],
   int8   |-> [name |-> "Int8",   size |-> Some(1)],
   int16  |-> [name |-> "Int16",  size |-> Some(2)],
   int32  |-> [name |-> "Int32",  size |-> Some(4)],
   int64  |-> [name |-> "Int64",  size |-> Some(8)],
   string |-> [name |-> "String", size |-> Null],
   bytes  |-> [name |-> "Bytes",  size |-> Null],
   struct |-> [name |-> "Struct", size |-> Null],
   script |-> [name |-> "Script", size |-> Null]]

getDataTypeSize(type) == DATA_TYPES[type].size

(***************************************************************************)
(* utils/fileReader.ts: file.slice(start, end) read into a Uint8Array.     *)
(* Blob.slice counts a negative position from the end of the blob and      *)
(* clamps both positions to [0, size]; an inverted range is empty.         *)
(***************************************************************************)
RelativePosition(p, size) == IF p < 0 THEN Max(size + p, 0) ELSE Min(p, size)

readFileSlice(file, start, end) ==
  LET size == Len(file)
      relativeStart == RelativePosition(SliceBound(start), size)
      relativeEnd == RelativePosition(SliceBound(end), size)
  IN  IF relativeEnd <= relativeStart THEN <<>>
      ELSE SubSeq(file, relativeStart + 1, relativeEnd)

(***************************************************************************)
(* BinaryParser.parseValue                                                 *)
(***************************************************************************)
RECURSIVE UnsignedBE(_)
\* the unsigned integer whose big-endian bytes are data
UnsignedBE(data) ==
  IF data = <<>> THEN 0
  ELSE UnsignedBE(SubSeq(data, 1, Len(data) - 1)) * 256 + data[Len(data)]

RECURSIVE Reverse(_)
Reverse(data) ==
  IF data = <<>> THEN <<>> ELSE Append(Reverse(Tail(data)), Head(data))

\* the bytes read in big-endian order whatever isLittleEndian says
getUintBigOnly(data, size, isLittleEndian) ==
  UnsignedBE(SubSeq(data, 1, size))

\* DataView.getUintN(0, isLittleEndian) over the first size bytes
getUint(data, size, isLittleEndian) ==
  LET bytes == SubSeq(data, 1, size)
  IN  UnsignedBE(IF isLittleEndian THEN Reverse(bytes) ELSE bytes)

\* DataView.getIntN(0, isLittleEndian): two's complement.  With the sign bit
\* set the value is u - 2^(8 size), computed as -(2^(8 size) - 1 - u) - 1 from
\* the complemented bytes so that no intermediate value leaves 32 bits
getInt(data, size, isLittleEndian) ==
  LET bytes == SubSeq(data, 1, size)
      ordered == IF isLittleEndian THEN Reverse(bytes) ELSE bytes
  IN  IF ordered[1] >= 128
      THEN -UnsignedBE([k \in 1..size |-> 255 - ordered[k]]) - 1
      ELSE getUint(data, size, isLittleEndian)

\* new TextDecoder().decode(data) for bytes that are ASCII or are never
\* part of a well-formed UTF-8 sequence (0xF8..0xFF): U+FFFD for the latter
TextDecode(data) ==
  [k \in 1..Len(data) |-> IF data[k] < 128 THEN data[k] ELSE 65533]

HexDigit(d) == IF d < 10 THEN 48 + d ELSE 87 + d

RECURSIVE HexDump(_)
\* bytes as lowercase hex pairs joined by single spaces
HexDump(data) ==
  IF data = <<>> THEN <<>>
  ELSE LET b == Head(data)
           pair == <<HexDigit(b \div 16), HexDigit(b % 16)>>
       IN  IF Len(data) = 1 THEN pair
           ELSE pair \o <<32>> \o HexDump(Tail(data))

parseValue(definition, data) ==
  LET typeSize == getDataTypeSize(definition.type)
      isLittleEndian == definition.endianness = "little"
      type == definition.type
  IN  IF typeSize # Null /\ Len(data) < typeSize[1]
      THEN Thrown("Insufficient data")
      ELSE CASE type = "uint8"  -> NumberValue(getUint(data, 1, isLittleEndian))
             [] type = "uint16" -> NumberValue(getUint(data, 2, isLittleEndian))
             [] type = "uint32" -> NumberValue(getUint(data, 4, isLittleEndian))
             [] type = "uint64" -> BigIntValue(getUint(data, 8, isLittleEndian))
             [] type = "int8"   -> NumberValue(getInt(data, 1, isLittleEndian))
             [] type = "int16"  -> NumberValue(getInt(data, 2, isLittleEndian))
             [] type = "int32"  -> NumberValue(getInt(data, 4, isLittleEndian))
             [] type = "int64"  -> BigIntValue(getInt(data, 8, isLittleEndian))
             [] type = "string" -> TextValue(TextDecode(data))
             [] type = "bytes"  -> TextValue(HexDump(data))
             [] OTHER           -> BytesValue(data)

(***************************************************************************)
(* Post-processing                                                         *)
(***************************************************************************)
\* m.value === value
StrictEquals(a, b) ==
  /\ a.kind = b.kind
  /\ a.kind \in {"number", "string", "null"}
  /\ a = b

RECURSIVE FindMapping(_, _, _)
FindMapping(valueMap, value, k) ==
  IF k > Len(valueMap) THEN Null
  ELSE IF StrictEquals(valueMap[k].value, value) THEN Some(valueMap[k])
  ELSE FindMapping(valueMap, value, k + 1)

applyValueMapping(definition, value) ==
  IF ~Has(definition, "valueMap") \/ Len(definition.valueMap) = 0 \/ value.kind = "null"
  THEN value
  ELSE LET mapping == FindMapping(definition.valueMap, value, 1)
       IN  IF mapping # Null THEN StringValue(mapping[1].description) ELSE value

\* (value >> bitIndex) & 1, the shift count taken modulo 32
BitOf(v, bitIndex) == (v \div (2 ^ (bitIndex % 32))) % 2

RECURSIVE CollectBitDescriptionsReversed(_, _, _)
\* the labels pushed to the front of the list
CollectBitDescriptionsReversed(bds, v, k) ==
  IF k > Len(bds) THEN <<>>
  ELSE LET bitDesc == bds[k]
           bitValue == BitOf(v, bitDesc.bitIndex)
           rest == CollectBitDescriptionsReversed(bds, v, k + 1)
       IN  IF bitValue = 1 /\ bitDesc.descriptionIfSet # ""
           THEN rest \o <<StringValue(bitDesc.descriptionIfSet)>>
           ELSE IF bitValue = 0 /\ Has(bitDesc, "descriptionIfUnset")
                               /\ bitDesc.descriptionIfUnset # ""
           THEN rest \o <<StringValue(bitDesc.descriptionIfUnset)>>
           ELSE rest

RECURSIVE CollectBitDescriptions(_, _, _)
CollectBitDescriptions(bds, v, k) ==
  IF k > Len(bds) THEN <<>>
  ELSE LET bitDesc == bds[k]
           bitValue == BitOf(v, bitDesc.bitIndex)
           rest == CollectBitDescriptions(bds, v, k + 1)
       IN  IF bitValue = 1 /\ bitDesc.descriptionIfSet # ""
           THEN <<StringValue(bitDesc.descriptionIfSet)>> \o rest
           ELSE IF bitValue = 0 /\ Has(bitDesc, "descriptionIfUnset")
                               /\ bitDesc.descriptionIfUnset # ""
           THEN <<StringValue(bitDesc.descriptionIfUnset)>> \o rest
           ELSE rest

applyBitDescriptions(definition, value) ==
  IF \/ ~Has(definition, "bitDescriptions")
     \/ Len(definition.bitDescriptions) = 0
     \/ value.kind # "number"
  THEN value
  ELSE LET bitDescriptions == CollectBitDescriptions(definition.bitDescriptions, value.n, 1)
       IN  IF Len(bitDescriptions) > 0 THEN ArrayValue(bitDescriptions) ELSE value

(***************************************************************************)
(* BinaryParser: the parser instance `self` is the record                  *)
(* file / substructures / parsedFields / readable, where readable tells    *)
(* whether FileReader can still read the file (reader.onerror otherwise).  *)
(***************************************************************************)
fileSize(self) == Len(self.file)

\* Map<string, ParsedField> as the sequence of its entries in insertion order
RECURSIVE MapGet(_, _)
MapGet(map, key) ==
  IF map = <<>> THEN Null
  ELSE IF Head(map).key = key THEN Some(Head(map).value)
  ELSE MapGet(Tail(map), key)

MapHas(map, key) == MapGet(map, key) # Null

RECURSIVE MapSetAll(_, _)
MapSetAll(map, parsedList) ==
  IF parsedList = <<>> THEN map
  ELSE MapSetAll(Append(map, [key |-> Head(parsedList).definition.id,
                              value |-> Head(parsedList)]),
                 Tail(parsedList))

\* registers the children of the field as well
MapSetNested(map, key, value) ==
  MapSetAll(Append(map, [key |-> key, value |-> value]),
            IF "children" \in DOMAIN value THEN value.children ELSE <<>>)

MapSet(map, key, value) ==
  IF MapHas(map, key)
  THEN [k \in 1..Len(map) |-> IF map[k].key = key THEN [key |-> key, value |-> value] ELSE map[k]]
  ELSE Append(map, [key |-> key, value |-> value])

getFieldLengthStaticFirst(self, definition) ==
  LET refField == IF Has(definition, "lengthRef") /\ definition.lengthRef # ""
                  THEN MapGet(self.parsedFields, definition.lengthRef)
                  ELSE Null
      typeSize == getDataTypeSize(definition.type)
  IN  IF Has(definition, "length") THEN definition.length
      ELSE IF refField # Null /\ refField[1].value.kind = "number" THEN refField[1].value.n
      ELSE IF typeSize # Null THEN typeSize[1]
      ELSE 1

\* without typeof refField.value === 'number'
getFieldLengthUntyped(self, definition) ==
  LET refField == IF Has(definition, "lengthRef") /\ definition.lengthRef # ""
                  THEN MapGet(self.parsedFields, definition.lengthRef)
                  ELSE Null
      typeSize == getDataTypeSize(definition.type)
  IN  IF refField # Null THEN refField[1].value.n
      ELSE IF Has(definition, "length") THEN definition.length
      ELSE IF typeSize # Null THEN typeSize[1]
      ELSE 1

getFieldLength(self, definition) ==
  LET refField == IF Has(definition, "lengthRef") /\ definition.lengthRef # ""
                  THEN MapGet(self.parsedFields, definition.lengthRef)
                  ELSE Null
      typeSize == getDataTypeSize(definition.type)
  IN  IF refField # Null /\ refField[1].value.kind = "number" THEN refField[1].value.n
      ELSE IF Has(definition, "length") THEN definition.length
      ELSE IF typeSize # Null THEN typeSize[1]
      ELSE 1

\* a referenced count below 1 gives way to repeats
getRepeatCountPositive(self, definition) ==
  LET refField == IF Has(definition, "repeatRef") /\ definition.repeatRef # ""
                  THEN MapGet(self.parsedFields, definition.repeatRef)
                  ELSE Null
  IN  IF refField # Null /\ refField[1].value.kind = "number" /\ refField[1].value.n >= 1
      THEN refField[1].value.n
      ELSE IF Has(definition, "repeats") /\ definition.repeats # 0 THEN definition.repeats
      ELSE 1

getRepeatCount(self, definition) ==
  LET refField == IF Has(definition, "repeatRef") /\ definition.repeatRef # ""
                  THEN MapGet(self.parsedFields, definition.repeatRef)
                  ELSE Null
  IN  IF refField # Null /\ refField[1].value.kind = "number" THEN refField[1].value.n
      ELSE IF Has(definition, "repeats") /\ definition.repeats # 0 THEN definition.repeats
      ELSE 1

\* the result returned at end of data, for an empty script and for an
\* unknown substructure
EmptyResult(definition, offset) ==
  [definition |-> definition, value |-> NullValue, rawValue |-> <<>>,
   offset |-> offset, length |-> 0]

(***************************************************************************)
(* Scripts.  A script is source text; the scripts of the explored inputs   *)
(* and what `await new Function(..., script)(...)` does for each.          *)
(***************************************************************************)
ScriptObject(value, length) == [kind |-> "object", value |-> value, length |-> length]
ErrorObject(msg) == [nullish |-> FALSE, message |-> msg]
Returns(result) == [type |-> "return", result |-> result]
Throws(error) == [type |-> "throw", error |-> error]

RunScript(script) ==
  CASE script = "return { value: 7, length: 2 };" ->
         Returns(ScriptObject(NumberValue(7), NumberValue(2)))
    [] script = "return { value: null, length: 1 };" ->
         Returns(ScriptObject(NullValue, NumberValue(1)))
    [] script = "return { value: 5n, length: 1 };" ->
         Returns(ScriptObject(BigIntValue(5), NumberValue(1)))
    [] script = "return { value: 1, length: -1 };" ->
         Returns(ScriptObject(NumberValue(1), NumberValue(-1)))
    [] script = "return { value: 1, length: 'x' };" ->
         Returns(ScriptObject(NumberValue(1), StringValue("x")))
    [] script = "return { value: 1, length: NaN };" ->
         Returns(ScriptObject(NumberValue(1), NumberValue(NaN)))
    [] script = "return { value: 1, length: 0 };" ->
         Returns(ScriptObject(NumberValue(1), NumberValue(0)))
    [] script = "return { value: 1 };" ->
         Returns([kind |-> "object", value |-> NumberValue(1)])
    [] script = "return 5;" ->
         Returns(NumberValue(5))
    [] script = "throw new Error('boom');" ->
         Throws(ErrorObject("boom"))
    [] script = "throw 'boom';" ->
         Throws(ErrorObject("undefined"))
    [] script = "throw null;" ->
         Throws([nullish |-> TRUE])
    [] script = "return {" ->
         Throws(ErrorObject("Unexpected end of input"))

\* the catch block of parseScriptField
ScriptCatch(definition, offset, e) ==
  IF e.nullish THEN Rejected("TypeError")
  ELSE [definition |-> definition,
        value |-> StringValue("Script Error: " \o e.message),
        rawValue |-> <<>>, offset |-> offset, length |-> 0]

parseScriptField(self, definition, offset) ==
  IF ~Has(definition, "script") \/ definition.script = ""
  THEN EmptyResult(definition, offset)
  ELSE
    LET outcome == RunScript(definition.script)
        result == outcome.result
    IN  IF outcome.type = "throw" THEN ScriptCatch(definition, offset, outcome.error)
        ELSE IF result.kind \in {"null", "undefined"}
                \/ (result.kind = "number" /\ result.n = 0)
                \/ result.kind # "object"
                \/ ~Has(result, "value") \/ ~Has(result, "length")
        THEN ScriptCatch(definition, offset,
               ErrorObject("Script must return an object with \"value\" and \"length\" properties"))
        ELSE IF result.length.kind # "number" \/ LessThan(result.length.n, 0)
        THEN ScriptCatch(definition, offset,
               ErrorObject("Script \"length\" must be a non-negative number"))
        ELSE LET bytesAvailable == fileSize(self) - offset
                 actualLength == MathMin(result.length.n, bytesAvailable)
             IN  IF ~self.readable
                 THEN ScriptCatch(definition, offset, ErrorObject("undefined"))
                 ELSE [definition |-> definition, value |-> result.value,
                       rawValue |-> readFileSlice(self.file, offset, Plus(offset, actualLength)),
                       offset |-> offset, length |-> actualLength]

(***************************************************************************)
(* BinaryParser.parseField / parseSubstructure / parseRepeatedField.       *)
(* Each returns a ParsedField, or Rejected when the promise rejects.       *)
(***************************************************************************)
RECURSIVE parseField(_, _, _, _)
RECURSIVE parseSubstructure(_, _, _)
RECURSIVE parseRepeatedField(_, _, _, _)
RECURSIVE legacyChildrenLoop(_, _, _, _, _)
RECURSIVE substructureLoop(_, _, _, _, _)
RECURSIVE repeatLoop(_, _, _, _, _, _)

NextOffsetLengthOnly(parsed) == parsed.length

\* offset = parsed.offset + parsed.length, of parseStructure and of the three
\* child loops
NextOffset(parsed) == Plus(parsed.offset, parsed.length)

ChildValues(children) == ArrayValue([k \in 1..Len(children) |-> children[k].value])

\* every child decoded, wherever the running offset is
legacyChildrenLoopToEnd(self, children, k, childResults, childOffset) ==
  IF k > Len(children)
  THEN [childResults |-> childResults, childOffset |-> childOffset]
  ELSE LET childParsed == parseField(self, children[k], childOffset, Null)
       IN  IF IsRejected(childParsed) THEN childParsed
           ELSE legacyChildrenLoop(self, children, k + 1,
                                   Append(childResults, childParsed),
                                   NextOffset(childParsed))

\* for (const childDef of definition.children) { ... } of parseField
legacyChildrenLoop(self, children, k, childResults, childOffset) ==
  IF k > Len(children) \/ childOffset >= fileSize(self)
  THEN [childResults |-> childResults, childOffset |-> childOffset]
  ELSE LET childParsed == parseField(self, children[k], childOffset, Null)
       IN  IF IsRejected(childParsed) THEN childParsed
           ELSE legacyChildrenLoop(self, children, k + 1,
                                   Append(childResults, childParsed),
                                   NextOffset(childParsed))

\* for (const childDef of substructure.fields) { ... } of parseSubstructure
substructureLoop(self, fields, k, childResults, childOffset) ==
  IF k > Len(fields) \/ childOffset >= fileSize(self)
  THEN [childResults |-> childResults, childOffset |-> childOffset]
  ELSE LET childParsed == parseField(self, fields[k], childOffset, Null)
       IN  IF IsRejected(childParsed) THEN childParsed
           ELSE substructureLoop(self, fields, k + 1,
                                 Append(childResults, childParsed),
                                 NextOffset(childParsed))

\* the loop left at every instance whose value is null
repeatLoopStopsAtNull(self, definition, count, i, children, currentOffset) ==
  IF ~(i < count) \/ currentOffset >= fileSize(self)
  THEN [children |-> children, currentOffset |-> currentOffset]
  ELSE LET itemDef == [definition EXCEPT !.id = definition.id \o "[" \o ToString(i) \o "]"]
           itemParsed == parseField(self, itemDef, currentOffset, Some(1))
       IN  IF IsRejected(itemParsed) THEN itemParsed
           ELSE IF itemParsed.value.kind = "null"
           THEN [children |-> children, currentOffset |-> currentOffset]
           ELSE repeatLoop(self, definition, count, i + 1,
                           Append(children, itemParsed),
                           NextOffset(itemParsed))

\* for (let i = 0; i < count; i++) { ... } of parseRepeatedField
repeatLoop(self, definition, count, i, children, currentOffset) ==
  IF ~(i < count) \/ currentOffset >= fileSize(self)
  THEN [children |-> children, currentOffset |-> currentOffset]
  ELSE LET itemDef == [definition EXCEPT !.id = definition.id \o "[" \o ToString(i) \o "]"]
           itemParsed == parseField(self, itemDef, currentOffset, Some(1))
       IN  IF IsRejected(itemParsed) THEN itemParsed
           ELSE IF itemParsed.value.kind = "null" /\ itemParsed.length = 0
           THEN [children |-> children, currentOffset |-> currentOffset]
           ELSE repeatLoop(self, definition, count, i + 1,
                           Append(children, itemParsed),
                           NextOffset(itemParsed))

RECURSIVE FindSubstructure(_, _)
\* this.substructures.find((s) => s.id === id)
FindSubstructure(substructures, id) ==
  IF substructures = <<>> THEN Null
  ELSE IF Head(substructures).id = id THEN Some(Head(substructures))
  ELSE FindSubstructure(Tail(substructures), id)

AggregateResultUnclamped(self, definition, offset, children, endOffset) ==
  LET totalLength == endOffset - offset
  IN  [definition |-> definition,
       value |-> ChildValues(children),
       rawValue |-> readFileSlice(self.file, offset, offset + totalLength),
       offset |-> offset,
       length |-> totalLength,
       children |-> children]

\* the aggregate returned by parseSubstructure and by parseRepeatedField
AggregateResult(self, definition, offset, children, endOffset) ==
  LET totalLength == endOffset - offset
      actualBytesToRead == Min(totalLength, fileSize(self) - offset)
  IN  [definition |-> definition,
       value |-> ChildValues(children),
       rawValue |-> readFileSlice(self.file, offset, offset + actualBytesToRead),
       offset |-> offset,
       length |-> actualBytesToRead,
       children |-> children]

\* an unknown template is an error
parseSubstructureStrict(self, definition, offset) ==
  LET substructure == FindSubstructure(self.substructures, definition.substructureRef)
  IN  IF substructure = Null THEN Rejected("unknown substructure")
      ELSE
        LET loop == substructureLoop([self EXCEPT !.depth = @ + 1],
                                     substructure[1].fields, 1, <<>>, offset)
        IN  IF IsRejected(loop) THEN loop
            ELSE IF ~self.readable THEN Rejected("read")
            ELSE AggregateResult(self, definition, offset, loop.childResults, loop.childOffset)

\* parseField and parseSubstructure call each other before their first
\* await: self.depth counts the parseSubstructure calls on the call stack,
\* and a call that the stack has no room for throws a RangeError, which
\* rejects the promises of all its callers
parseSubstructure(self, definition, offset) ==
  LET substructure == FindSubstructure(self.substructures, definition.substructureRef)
  IN  IF self.depth >= MaxCallDepth THEN Rejected("RangeError")
      ELSE IF substructure = Null THEN EmptyResult(definition, offset)
      ELSE
        LET loop == substructureLoop([self EXCEPT !.depth = @ + 1],
                                     substructure[1].fields, 1, <<>>, offset)
        IN  IF IsRejected(loop) THEN loop
            ELSE IF ~self.readable THEN Rejected("read")
            ELSE AggregateResult(self, definition, offset, loop.childResults, loop.childOffset)

parseRepeatedFieldOffByOne(self, definition, offset, count) ==
  LET loop == repeatLoop(self, definition, count - 1, 0, <<>>, offset)
  IN  IF IsRejected(loop) THEN loop
      ELSE IF ~self.readable THEN Rejected("read")
      ELSE AggregateResult(self, definition, offset, loop.children, loop.currentOffset)

parseRepeatedField(self, definition, offset, count) ==
  LET loop == repeatLoop(self, definition, count, 0, <<>>, offset)
  IN  IF IsRejected(loop) THEN loop
      ELSE IF ~self.readable THEN Rejected("read")
      ELSE AggregateResult(self, definition, offset, loop.children, loop.currentOffset)

\* the override left out
ResolveOffsetSequential(definition, startOffset) == startOffset

\* if (definition.offset !== undefined) offset = definition.offset
ResolveOffset(definition, startOffset) ==
  IF Has(definition, "offset") THEN definition.offset ELSE startOffset

PartialResultAvailable(definition, rawValue, offset, requestedLength) ==
  [definition |-> definition, value |-> NullValue, rawValue |-> rawValue,
   offset |-> offset, length |-> Len(rawValue)]

\* the partial result of a fixed-size kind with too few bytes
PartialResult(definition, rawValue, offset, requestedLength) ==
  [definition |-> definition, value |-> NullValue, rawValue |-> rawValue,
   offset |-> offset, length |-> requestedLength]

\* bit descriptions applied before the value mapping
DecodeValueBitsFirst(definition, rawValue) ==
  LET value == parseValue(definition, rawValue)
  IN  IF IsThrown(value) THEN NullValue
      ELSE applyValueMapping(definition, applyBitDescriptions(definition, value))

\* value = parseValue; applyValueMapping; applyBitDescriptions, null on a throw
DecodeValue(definition, rawValue) ==
  LET value == parseValue(definition, rawValue)
  IN  IF IsThrown(value) THEN NullValue
      ELSE applyBitDescriptions(definition, applyValueMapping(definition, value))

\* the repeat count looked at before the kind of the field
parseFieldRepeatsFirst(self, definition, startOffset, repeatCount) ==
  LET offset == ResolveOffset(definition, startOffset)
  IN
  IF offset >= fileSize(self) THEN EmptyResult(definition, offset)
  ELSE IF (IF repeatCount = Null THEN getRepeatCount(self, definition) ELSE repeatCount[1]) > 1
  THEN parseRepeatedField(self, definition, offset,
                          IF repeatCount = Null THEN getRepeatCount(self, definition)
                          ELSE repeatCount[1])
  ELSE IF definition.type = "script" THEN parseScriptField(self, definition, offset)
  ELSE IF /\ definition.type = "struct"
          /\ Has(definition, "substructureRef")
          /\ definition.substructureRef # ""
  THEN parseSubstructure(self, definition, offset)
  ELSE
    LET requestedLength == getFieldLength(self, definition)
        bytesAvailable == fileSize(self) - offset
        actualBytesToRead == Min(requestedLength, bytesAvailable)
        typeSize == getDataTypeSize(definition.type)
        count == IF repeatCount = Null THEN getRepeatCount(self, definition)
                 ELSE repeatCount[1]
        rawValue == readFileSlice(self.file, offset, offset + actualBytesToRead)
        value == DecodeValue(definition, rawValue)
        parsed == [definition |-> definition, value |-> value, rawValue |-> rawValue,
                   offset |-> offset, length |-> requestedLength]
    IN
    IF typeSize # Null /\ actualBytesToRead < typeSize[1]
    THEN IF ~self.readable THEN Rejected("read")
         ELSE PartialResult(definition, rawValue, offset, requestedLength)
    ELSE IF count > 1 THEN parseRepeatedField(self, definition, offset, count)
    ELSE IF ~self.readable THEN Rejected("read")
    ELSE IF definition.type = "struct" /\ Has(definition, "children") /\ value.kind # "null"
    THEN LET loop == legacyChildrenLoop(self, definition.children, 1, <<>>, offset)
         IN  IF IsRejected(loop) THEN loop
             ELSE [definition |-> definition, value |-> value, rawValue |-> rawValue,
                   offset |-> offset, length |-> loop.childOffset - offset,
                   children |-> loop.childResults]
    ELSE parsed

parseField(self, definition, startOffset, repeatCount) ==
  LET offset == ResolveOffset(definition, startOffset)
  IN
  IF offset >= fileSize(self) THEN EmptyResult(definition, offset)
  ELSE IF definition.type = "script" THEN parseScriptField(self, definition, offset)
  ELSE IF /\ definition.type = "struct"
          /\ Has(definition, "substructureRef")
          /\ definition.substructureRef # ""
  THEN parseSubstructure(self, definition, offset)
  ELSE
    LET requestedLength == getFieldLength(self, definition)
        bytesAvailable == fileSize(self) - offset
        actualBytesToRead == Min(requestedLength, bytesAvailable)
        typeSize == getDataTypeSize(definition.type)
        count == IF repeatCount = Null THEN getRepeatCount(self, definition)
                 ELSE repeatCount[1]
        rawValue == readFileSlice(self.file, offset, offset + actualBytesToRead)
        value == DecodeValue(definition, rawValue)
        parsed == [definition |-> definition, value |-> value, rawValue |-> rawValue,
                   offset |-> offset, length |-> requestedLength]
    IN
    IF typeSize # Null /\ actualBytesToRead < typeSize[1]
    THEN IF ~self.readable THEN Rejected("read")
         ELSE PartialResult(definition, rawValue, offset, requestedLength)
    ELSE IF count > 1 THEN parseRepeatedField(self, definition, offset, count)
    ELSE IF ~self.readable THEN Rejected("read")
    ELSE IF definition.type = "struct" /\ Has(definition, "children") /\ value.kind # "null"
    THEN LET loop == legacyChildrenLoop(self, definition.children, 1, <<>>, offset)
         IN  IF IsRejected(loop) THEN loop
             ELSE [definition |-> definition, value |-> value, rawValue |-> rawValue,
                   offset |-> offset, length |-> loop.childOffset - offset,
                   children |-> loop.childResults]
    ELSE parsed

ReachedEndStrict(newOffset, size) == newOffset > size

\* if (offset >= this.fileSize) break
ReachedEnd(newOffset, size) == ~LessThan(newOffset, size) /\ newOffset # NaN

RECURSIVE parseStructureLoop(_, _, _, _, _)
\* for (const field of fields) { ... } of parseStructure, run to its end
parseStructureLoop(self, fieldList, k, runningOffset, resultList) ==
  IF k > Len(fieldList) THEN [results |-> resultList]
  ELSE LET field == fieldList[k]
           parsed == parseField(self, field, runningOffset, Null)
       IN  IF IsRejected(parsed) THEN parsed
           ELSE IF ReachedEnd(NextOffset(parsed), fileSize(self))
           THEN [results |-> Append(resultList, parsed)]
           ELSE parseStructureLoop(
                  [self EXCEPT !.parsedFields = MapSet(self.parsedFields, field.id, parsed)],
                  fieldList, k + 1, NextOffset(parsed), Append(resultList, parsed))

\* new BinaryParser(fileData, substructures)
BinaryParser(fileData, substructureList) ==
  [file |-> fileData, substructures |-> substructureList,
   parsedFields |-> <<>>, readable |-> TRUE, depth |-> 0]

\* parser.parseStructure(fields) as the outcome of its promise: the results,
\* or Rejected
parseStructure(self, fieldList) ==
  parseStructureLoop([self EXCEPT !.parsedFields = <<>>], fieldList, 1, 0, <<>>)

(***************************************************************************)
(* Explored inputs                                                         *)
(***************************************************************************)
\* byte values of the explored files: 0, a small count, and a byte that is
\* negative as int8 and not ASCII
FileBytes == {0, 2, 254}

Files == UNION {[1..n -> FileBytes] : n \in 0..MaxFileSize}

Field(type) == [id |-> "", type |-> type, endianness |-> "big"]

\* the substructure catalog
SubstructureCatalog ==
  << [id |-> "sub1", name |-> "MySub",
      fields |-> << [Field("uint8") EXCEPT !.id = "s_type"],
                    [Field("uint16") EXCEPT !.id = "s_val"] >>],
     [id |-> "sub2", name |-> "Counted",
      fields |-> << [Field("uint8") EXCEPT !.id = "s_len"],
                    [id |-> "s_str", type |-> "string", endianness |-> "big",
                     lengthRef |-> "s_len"] >>],
     [id |-> "sub3", name |-> "Outer",
      fields |-> << [id |-> "s_out", type |-> "bytes", endianness |-> "big",
                     lengthRef |-> "f1"] >>] >>

ScriptField(script) ==
  [id |-> "", type |-> "script", endianness |-> "big", script |-> script]

\* the descriptors a top-level field is drawn from (its id is set by position)
FieldPool ==
  << Field("uint8"),
     Field("uint16"),
     Field("int8"),
     ScriptField("return { value: 7, length: 2 };"),
     ScriptField("return 5;"),
     ScriptField("throw new Error('boom');"),
     ScriptField("throw null;"),
     [id |-> "", type |-> "struct", endianness |-> "big", substructureRef |-> "sub1"],
     [id |-> "", type |-> "uint8", endianness |-> "big", offset |-> 1],
     [id |-> "", type |-> "uint8", endianness |-> "big",
      valueMap |-> << [value |-> NumberValue(0), description |-> "zero"] >>,
      bitDescriptions |-> << [bitIndex |-> 1, descriptionIfSet |-> "b1"] >>],
     [id |-> "", type |-> "uint32", endianness |-> "big", offset |-> 1],
     [id |-> "", type |-> "uint16", endianness |-> "little", length |-> 3],
     [id |-> "", type |-> "string", endianness |-> "big", lengthRef |-> "f1"],
     [id |-> "", type |-> "string", endianness |-> "big", lengthRef |-> "f1", length |-> 2],
     [id |-> "", type |-> "bytes", endianness |-> "big", length |-> 2],
     [id |-> "", type |-> "uint8", endianness |-> "big", repeats |-> 2],
     [id |-> "", type |-> "uint16", endianness |-> "big", repeats |-> 2],
     [id |-> "", type |-> "uint8", endianness |-> "big", repeatRef |-> "f1"],
     [id |-> "", type |-> "uint8", endianness |-> "big", length |-> 2, repeats |-> 2],
     [id |-> "", type |-> "struct", endianness |-> "big", substructureRef |-> "sub2"],
     [id |-> "", type |-> "struct", endianness |-> "big", substructureRef |-> "sub3"],
     [id |-> "", type |-> "struct", endianness |-> "big", substructureRef |-> "missing"],
     [id |-> "", type |-> "struct", endianness |-> "big",
      children |-> << [Field("uint8") EXCEPT !.id = "c1"],
                      [Field("uint16") EXCEPT !.id = "c2"] >>],
     ScriptField("return { value: 1, length: -1 };"),
     ScriptField("return {") >>

\* the descriptors a first field followed by others is drawn from
HeadChoices == 1..10

\* the descriptors a field after the second one is drawn from
TailChoices == {1, 13}

\* field k of a list of n fields: the second field, and an only field, range
\* over the whole pool
Choices(n, k) ==
  IF n = 1 \/ k = 2 THEN 1..Len(FieldPool)
  ELSE IF k = 1 THEN HeadChoices
  ELSE TailChoices

FieldId(k) == "f" \o ToString(k)

FieldLists ==
  UNION {{[k \in 1..n |-> [FieldPool[choice[k]] EXCEPT !.id = FieldId(k)]] :
            choice \in {c \in [1..n -> 1..Len(FieldPool)] :
                          \A k \in 1..n : c[k] \in Choices(n, k)}} : n \in 0..MaxFields}

\* first fields whose value is not a plain number, or that refer to
\* themselves or to the field after them
ReferenceHeads ==
  { FieldPool[10],
    ScriptField("return { value: 5n, length: 1 };"),
    ScriptField("return { value: null, length: 1 };"),
    Field("string"),
    [id |-> "", type |-> "string", endianness |-> "big", lengthRef |-> "f2", length |-> 2],
    [id |-> "", type |-> "uint8", endianness |-> "big", repeatRef |-> "f1", repeats |-> 2] }

\* second fields that refer to the first one, to themselves or to no field
ReferenceSeconds ==
  { FieldPool[14],
    FieldPool[18],
    [id |-> "", type |-> "uint8", endianness |-> "big", repeatRef |-> "f1", repeats |-> 2],
    [id |-> "", type |-> "string", endianness |-> "big", lengthRef |-> "f2"],
    [id |-> "", type |-> "uint8", endianness |-> "big", repeatRef |-> "nope", repeats |-> 2] }

\* two-field lists for the resolution of lengthRef and repeatRef
ReferenceFieldLists ==
  { << [head EXCEPT !.id = FieldId(1)], [second EXCEPT !.id = FieldId(2)] >> :
      head \in ReferenceHeads, second \in ReferenceSeconds }

\* bit descriptions in an order that is not the order of the bits, with and
\* without labels for the unset bit, and with an empty label for the set bit
BitList ==
  << [bitIndex |-> 7, descriptionIfSet |-> "hi", descriptionIfUnset |-> "lo"],
     [bitIndex |-> 1, descriptionIfSet |-> "b1"],
     [bitIndex |-> 0, descriptionIfSet |-> "", descriptionIfUnset |-> "even"],
     [bitIndex |-> 1, descriptionIfSet |-> "", descriptionIfUnset |-> "n1"] >>

\* fields with value mappings and bit descriptions
PostProcessingFields ==
  { [id |-> "", type |-> "uint8", endianness |-> "big",
     valueMap |-> << [value |-> NumberValue(2), description |-> "two"],
                     [value |-> NumberValue(2), description |-> "again"],
                     [value |-> NumberValue(0), description |-> "zero"] >>,
     bitDescriptions |-> << [bitIndex |-> 1, descriptionIfSet |-> "b1",
                             descriptionIfUnset |-> "n1"] >>],
    [id |-> "", type |-> "uint8", endianness |-> "big",
     valueMap |-> << [value |-> StringValue("2"), description |-> "text"],
                     [value |-> NullValue, description |-> "nil"] >>],
    [id |-> "", type |-> "uint16", endianness |-> "little",
     valueMap |-> << [value |-> NullValue, description |-> "nil"],
                     [value |-> NumberValue(2), description |-> "two"] >>],
    [id |-> "", type |-> "uint8", endianness |-> "big", bitDescriptions |-> BitList],
    [id |-> "", type |-> "int8", endianness |-> "big", bitDescriptions |-> BitList],
    [id |-> "", type |-> "uint8", endianness |-> "big",
     bitDescriptions |-> << [bitIndex |-> 1, descriptionIfSet |-> "b1"] >>],
    [id |-> "", type |-> "string", endianness |-> "big", bitDescriptions |-> BitList] }

PostProcessingFieldLists ==
  { << [field EXCEPT !.id = FieldId(1)] >> : field \in PostProcessingFields }

\* repeated fields: a count by reference beside a static one, an explicit
\* offset, more instances than the file has values for, instances of no
\* bytes and of one byte of text
RepeatedFields ==
  { [id |-> "", type |-> "uint8", endianness |-> "big", repeatRef |-> "f1", repeats |-> 2],
    [id |-> "", type |-> "uint8", endianness |-> "big", offset |-> 1, repeats |-> 2],
    [id |-> "", type |-> "uint8", endianness |-> "big", offset |-> 0, repeats |-> 3],
    [id |-> "", type |-> "uint16", endianness |-> "big", repeats |-> 3],
    [id |-> "", type |-> "string", endianness |-> "big", length |-> 0, repeats |-> 2],
    [id |-> "", type |-> "string", endianness |-> "big", length |-> 1, repeats |-> 1],
    [id |-> "", type |-> "bytes", endianness |-> "big", repeats |-> 3] }

\* a repeated field alone, after a byte that is a count, and before a byte
RepeatLists ==
  UNION { { << [repeated EXCEPT !.id = FieldId(1)] >>,
            << [Field("uint8") EXCEPT !.id = FieldId(1)],
               [repeated EXCEPT !.id = FieldId(2)] >>,
            << [Field("int8") EXCEPT !.id = FieldId(1)],
               [repeated EXCEPT !.id = FieldId(2)] >>,
            << [repeated EXCEPT !.id = FieldId(1)],
               [Field("uint8") EXCEPT !.id = FieldId(2)] >> } :
          repeated \in RepeatedFields }

\* struct fields with inline children: with a length of their own, with a
\* child at an explicit offset, and without any child
InlineStructs ==
  { [id |-> "", type |-> "struct", endianness |-> "big", length |-> 2,
     children |-> << [Field("uint8") EXCEPT !.id = "c1"] >>],
    [id |-> "", type |-> "struct", endianness |-> "big",
     children |-> << [Field("uint16") EXCEPT !.id = "c1"],
                     [Field("uint8") EXCEPT !.id = "c2"] >>],
    [id |-> "", type |-> "struct", endianness |-> "big",
     children |-> << [id |-> "c1", type |-> "uint8", endianness |-> "big", offset |-> 0] >>],
    [id |-> "", type |-> "struct", endianness |-> "big",
     children |-> << [Field("uint16") EXCEPT !.id = "c1"],
                     [id |-> "c2", type |-> "uint8", endianness |-> "big", offset |-> 0] >>],
    [id |-> "", type |-> "struct", endianness |-> "big", children |-> <<>>] }

\* such a field alone, after one and two bytes, and before a byte
InlineStructLists ==
  UNION { { << [struct EXCEPT !.id = FieldId(1)] >>,
            << [Field("uint8") EXCEPT !.id = FieldId(1)],
               [struct EXCEPT !.id = FieldId(2)] >>,
            << [Field("uint16") EXCEPT !.id = FieldId(1)],
               [struct EXCEPT !.id = FieldId(2)] >>,
            << [struct EXCEPT !.id = FieldId(1)],
               [Field("uint8") EXCEPT !.id = FieldId(2)] >> } :
          struct \in InlineStructs }

\* script and template fields that carry length and repeat attributes
DispatchFields ==
  { [id |-> "", type |-> "script", endianness |-> "big",
     script |-> "return { value: 7, length: 2 };", length |-> 1, repeats |-> 2],
    [id |-> "", type |-> "script", endianness |-> "big",
     script |-> "return { value: 7, length: 2 };", lengthRef |-> "f1", repeatRef |-> "f1"],
    [id |-> "", type |-> "struct", endianness |-> "big", substructureRef |-> "sub1",
     length |-> 1, repeats |-> 2],
    [id |-> "", type |-> "struct", endianness |-> "big", substructureRef |-> "sub1",
     lengthRef |-> "f1", repeatRef |-> "f1"] }

\* such a field alone, after a byte that is a count, and before a byte
DispatchLists ==
  UNION { { << [field EXCEPT !.id = FieldId(1)] >>,
            << [Field("uint8") EXCEPT !.id = FieldId(1)],
               [field EXCEPT !.id = FieldId(2)] >>,
            << [field EXCEPT !.id = FieldId(1)],
               [Field("uint8") EXCEPT !.id = FieldId(2)] >> } :
          field \in DispatchFields }

\* a struct field without its template, at the running offset and at an
\* explicit one, followed by a sibling
MissingTemplateLists ==
  { << [id |-> FieldId(1), type |-> "struct", endianness |-> "big",
        substructureRef |-> "missing"],
       [second EXCEPT !.id = FieldId(2)] >> :
      second \in {FieldPool[1], FieldPool[2], FieldPool[9], FieldPool[22]} }
  \cup
  { << [id |-> FieldId(1), type |-> "struct", endianness |-> "big",
        substructureRef |-> "missing", offset |-> 1],
       [Field("uint8") EXCEPT !.id = FieldId(2)] >> }

(***************************************************************************)
(* State: the inputs of a decode pass, the parser instance and the         *)
(* position of parseStructure in its loop.                                 *)
(***************************************************************************)
VARIABLES
  file,           \* the bytes of the File
  substructures,  \* this.substructures
  fields,         \* the argument of parseStructure
  readable,       \* FileReader can read the file
  parsedFields,   \* this.parsedFields
  offset,         \* let offset of parseStructure
  results,        \* const results of parseStructure
  i,              \* index of the next descriptor of the for loop (1-based)
  pc,             \* "idle", "loop", "break", "done" (returned), "rejected"
  firstResults,   \* what the first parseStructure call on the instance returned
  invocations,    \* parseStructure calls that overlap on one instance
  hook,           \* the state, props and refs of useFileHandler
  inFlight,       \* the parseFile() calls of useFileHandler awaiting their parser
  panel,          \* the argument and the state of usePanelInteraction
  debounced       \* a function returned by debounce, its timers and its calls

parserVars == <<file, substructures, fields, readable, parsedFields, offset, results, i, pc,
                firstResults>>
hookVars == <<hook, inFlight>>
uiVars == <<panel, debounced>>
vars == <<parserVars, invocations, hookVars, uiVars>>

Self == [file |-> file, substructures |-> substructures,
         parsedFields |-> parsedFields, readable |-> readable, depth |-> 0]

\* no parseStructure call made through the overlapping callers
NoInvocations == <<>>

\* usePanelInteraction before its first render; when the last call was
\* handleOffsetClick, lastOffsetClick and highlightedBefore hold its offset
\* and the highlightedField it found
PanelUnmounted ==
  [parsedFields |-> <<>>, highlightedField |-> Null,
   lastOffsetClick |-> Null, highlightedBefore |-> Null]

\* no debounced function: wait, the clock, let timeout, the timers of the
\* host, the id of the next timer, and the calls and invocations so far
NoDebounce ==
  [wait |-> 0, now |-> 0, timeout |-> Null, timers |-> {}, nextId |-> 1, log |-> <<>>]

\* useFileHandler before its first render
HookUnmounted ==
  [fileData |-> Null, structure |-> <<>>, substructures |-> <<>>,
   parsedFields |-> <<>>, lastStructureRef |-> Null, lastSubstructuresRef |-> Null,
   lastFileDataRef |-> Null]

Init ==
  /\ file \in Files
  /\ substructures = SubstructureCatalog
  /\ fields \in FieldLists \cup ReferenceFieldLists \cup PostProcessingFieldLists
                \cup MissingTemplateLists \cup RepeatLists \cup InlineStructLists
                \cup DispatchLists
  /\ readable = TRUE
  /\ parsedFields = <<>>
  /\ offset = 0
  /\ results = <<>>
  /\ i = 1
  /\ pc = "idle"
  /\ firstResults = Null
  /\ invocations = NoInvocations
  /\ hook = HookUnmounted
  /\ inFlight = <<>>
  /\ panel = PanelUnmounted
  /\ debounced = NoDebounce

\* the call without this.parsedFields.clear()
ParseStructureStartKeepsIndex ==
  /\ pc \in {"idle", "done"}
  /\ parsedFields' = parsedFields
  /\ offset' = 0
  /\ results' = <<>>
  /\ i' = 1
  /\ pc' = "loop"
  /\ UNCHANGED <<file, substructures, fields, readable, firstResults>>
  /\ UNCHANGED <<invocations, hookVars, uiVars>>

\* parseStructure is called: lines up to the for loop
ParseStructureStart ==
  /\ pc \in {"idle", "done"}
  /\ parsedFields' = <<>>
  /\ offset' = 0
  /\ results' = <<>>
  /\ i' = 1
  /\ pc' = "loop"
  /\ UNCHANGED <<file, substructures, fields, readable, firstResults>>
  /\ UNCHANGED <<invocations, hookVars, uiVars>>

\* one iteration of the for loop whose parseField resolves
ParseStructureStep ==
  /\ pc = "loop"
  /\ i <= Len(fields)
  /\ LET field == fields[i]
         parsed == parseField(Self, field, offset, Null)
     IN  /\ ~IsRejected(parsed)
         /\ results' = Append(results, parsed)
         /\ parsedFields' = MapSet(parsedFields, field.id, parsed)
         /\ offset' = NextOffset(parsed)
         /\ i' = i + 1
         /\ pc' = IF ReachedEnd(NextOffset(parsed), fileSize(Self))
                 THEN "break" ELSE "loop"
  /\ UNCHANGED <<file, substructures, fields, readable, firstResults>>
  /\ UNCHANGED <<invocations, hookVars, uiVars>>

\* one iteration of the for loop whose parseField rejects: parseStructure rejects
ParseStructureReject ==
  /\ pc = "loop"
  /\ i <= Len(fields)
  /\ IsRejected(parseField(Self, fields[i], offset, Null))
  /\ pc' = "rejected"
  /\ UNCHANGED <<file, substructures, fields, readable, parsedFields, offset, results, i>>
  /\ UNCHANGED <<firstResults, invocations, hookVars, uiVars>>

\* the loop is over: return results
ParseStructureReturn ==
  /\ \/ pc = "break"
     \/ pc = "loop" /\ i > Len(fields)
  /\ pc' = "done"
  /\ firstResults' = IF firstResults = Null THEN Some(results) ELSE firstResults
  /\ UNCHANGED <<file, substructures, fields, readable, parsedFields, offset, results, i>>
  /\ UNCHANGED <<invocations, hookVars, uiVars>>

\* the file behind the File object can no longer be read
FileBecomesUnreadable ==
  /\ readable
  /\ pc \in {"idle", "loop"}
  /\ readable' = FALSE
  /\ UNCHANGED <<file, substructures, fields, parsedFields, offset, results, i, pc>>
  /\ UNCHANGED <<firstResults, invocations, hookVars, uiVars>>

Next ==
  \/ ParseStructureStart
  \/ ParseStructureStep
  \/ ParseStructureReject
  \/ ParseStructureReturn

\* decode passes over a file that FileReader always reads
Spec == Init /\ [][Next]_vars

NextIO ==
  \/ Next
  \/ FileBecomesUnreadable

\* decode passes over a file that may become unreadable
SpecIO == Init /\ [][NextIO]_vars

(***************************************************************************)
(* Decode passes over integer fields of every width: the byte strings and  *)
(* field lists of the integer tests, and ones with the sign bits set       *)
(* (bytes 1, 4 and 7 of the unsigned ones below 128: they lead the 32 bit  *)
(* values).                                                                *)
(***************************************************************************)
UnsignedFiles ==
  { <<1, 2, 3, 4, 5, 6, 7>>,
    <<1, 3, 2, 7, 6, 5, 4>>,
    <<127, 255, 128, 127, 255, 128, 127>>,
    <<0, 0, 1, 0, 0, 0, 0>> }

SignedFiles ==
  UnsignedFiles \cup
  { <<254, 255, 128, 255, 255, 255, 254>>,
    <<128, 128, 0, 128, 0, 0, 128>>,
    <<127, 127, 255, 128, 0, 0, 0>> }

IntegerList(types, endianness) ==
  [k \in 1..Len(types) |-> [id |-> FieldId(k), type |-> types[k], endianness |-> endianness]]

UnsignedLists ==
  { IntegerList(types, endianness) :
      types \in {<<"uint8", "uint16", "uint32">>, <<"uint32", "uint16", "uint8">>,
                 <<"uint16", "uint8", "uint32">>},
      endianness \in {"big", "little"} }

SignedLists ==
  { IntegerList(types, endianness) :
      types \in {<<"int8", "int16", "int32">>, <<"int32", "int16", "int8">>},
      endianness \in {"big", "little"} }

InitIntegers ==
  /\ \E case \in (UnsignedFiles \X UnsignedLists) \cup (SignedFiles \X SignedLists) :
       file = case[1] /\ fields = case[2]
  /\ substructures = SubstructureCatalog
  /\ readable = TRUE
  /\ parsedFields = <<>>
  /\ offset = 0
  /\ results = <<>>
  /\ i = 1
  /\ pc = "idle"
  /\ firstResults = Null
  /\ invocations = NoInvocations
  /\ hook = HookUnmounted
  /\ inFlight = <<>>
  /\ panel = PanelUnmounted
  /\ debounced = NoDebounce

\* these lists hold no script and the file stays readable: no parseField
\* rejects
NextIntegers ==
  \/ ParseStructureStart
  \/ ParseStructureStep
  \/ ParseStructureReturn

\* decode passes over the integer fields
SpecIntegers == InitIntegers /\ [][NextIntegers]_vars

\* what the explored scripts return as length: numbers from 0 up, below 0,
\* NaN, a string, and no length at all
LengthScripts ==
  { "return { value: 7, length: 2 };",
    "return { value: null, length: 1 };",
    "return { value: 1, length: 0 };",
    "return { value: 1, length: -1 };",
    "return { value: 1, length: 'x' };",
    "return { value: 1, length: NaN };",
    "return { value: 1 };",
    "throw null;" }

\* a script field alone, at an explicit offset, after a byte and before one.
\* The script that returns NaN is the last field of its list: a running
\* offset that is NaN is not followed into the next field.
ScriptLists ==
  UNION { { << [ScriptField(script) EXCEPT !.id = FieldId(1)] >>,
            << [id |-> FieldId(1), type |-> "script", endianness |-> "big",
                script |-> script, offset |-> 2] >>,
            << [Field("uint8") EXCEPT !.id = FieldId(1)],
               [ScriptField(script) EXCEPT !.id = FieldId(2)] >> }
          \cup
          ( IF script = "return { value: 1, length: NaN };" THEN {}
            ELSE { << [ScriptField(script) EXCEPT !.id = FieldId(1)],
                      [Field("uint8") EXCEPT !.id = FieldId(2)] >> } ) :
          script \in LengthScripts }

InitScripts ==
  /\ file \in Files
  /\ fields \in ScriptLists
  /\ substructures = SubstructureCatalog
  /\ readable = TRUE
  /\ parsedFields = <<>>
  /\ offset = 0
  /\ results = <<>>
  /\ i = 1
  /\ pc = "idle"
  /\ firstResults = Null
  /\ invocations = NoInvocations
  /\ hook = HookUnmounted
  /\ inFlight = <<>>
  /\ panel = PanelUnmounted
  /\ debounced = NoDebounce

\* decode passes over the script fields
SpecScripts == InitScripts /\ [][Next]_vars

\* templates that refer to themselves and to each other: "loop" as its first
\* field, "ping" and "pong" through one another
RecursiveCatalog ==
  << [id |-> "loop", name |-> "Loop",
      fields |-> << [id |-> "l_self", type |-> "struct", endianness |-> "big",
                     substructureRef |-> "loop"] >>],
     [id |-> "ping", name |-> "Ping",
      fields |-> << [id |-> "p_pong", type |-> "struct", endianness |-> "big",
                     substructureRef |-> "pong"] >>],
     [id |-> "pong", name |-> "Pong",
      fields |-> << [id |-> "q_ping", type |-> "struct", endianness |-> "big",
                     substructureRef |-> "ping"] >>] >>

\* a field of one of these templates, alone and after a byte
RecursiveLists ==
  UNION { { << [id |-> FieldId(1), type |-> "struct", endianness |-> "big",
                substructureRef |-> template] >>,
            << [Field("uint8") EXCEPT !.id = FieldId(1)],
               [id |-> FieldId(2), type |-> "struct", endianness |-> "big",
                substructureRef |-> template] >> } :
          template \in {"loop", "ping"} }

InitRecursive ==
  /\ file \in Files
  /\ fields \in RecursiveLists
  /\ substructures = RecursiveCatalog
  /\ readable = TRUE
  /\ parsedFields = <<>>
  /\ offset = 0
  /\ results = <<>>
  /\ i = 1
  /\ pc = "idle"
  /\ firstResults = Null
  /\ invocations = NoInvocations
  /\ hook = HookUnmounted
  /\ inFlight = <<>>
  /\ panel = PanelUnmounted
  /\ debounced = NoDebounce

\* decode passes over templates that refer to themselves; a pass that was
\* started goes on: every await of it settles
SpecRecursive == InitRecursive /\ [][Next]_vars /\ WF_vars(Next)

(***************************************************************************)
(* hooks/useFileHandler: a React hook.  hook holds its state (fileData,    *)
(* parsedFields), its props (structure, substructures) and its refs;       *)
(* inFlight holds, in the order they were started, the parseFile() calls   *)
(* that await parser.parseStructure, each with the values it captured.     *)
(* JSON.stringify(x) is modelled by x, the initial '' of a ref by Null.    *)
(***************************************************************************)
MaxInFlight == 2

HookFiles == {<<2>>, <<0, 254>>}

HookStructures ==
  { <<>>,
    << [id |-> "f1", type |-> "struct", endianness |-> "big", substructureRef |-> "sub1"] >>,
    << [ScriptField("throw null;") EXCEPT !.id = "f1"] >> }

HookCatalogs == {SubstructureCatalog, <<>>}

InitHook ==
  /\ file = <<>>
  /\ substructures = <<>>
  /\ fields = <<>>
  /\ readable = TRUE
  /\ parsedFields = <<>>
  /\ offset = 0
  /\ results = <<>>
  /\ i = 1
  /\ pc = "idle"
  /\ firstResults = Null
  /\ invocations = NoInvocations
  /\ hook \in {[HookUnmounted EXCEPT !.structure = st, !.substructures = su] :
                 st \in HookStructures, su \in HookCatalogs}
  /\ inFlight = <<>>
  /\ panel = PanelUnmounted
  /\ debounced = NoDebounce

\* the first render is committed and its effect has run
Mounted == hook.lastStructureRef # Null

\* setFileData(newFileData), of handleFileLoad
HandleFileLoad ==
  /\ Mounted
  /\ \E newFileData \in HookFiles : hook' = [hook EXCEPT !.fileData = Some(newFileData)]
  /\ UNCHANGED <<parserVars, invocations, inFlight, uiVars>>

\* setFileData(undefined)
SetFileDataUndefined ==
  /\ Mounted
  /\ hook.fileData # Null
  /\ hook' = [hook EXCEPT !.fileData = Null]
  /\ UNCHANGED <<parserVars, invocations, inFlight, uiVars>>

\* the component renders the hook with another structure or other substructures
PropsChange ==
  /\ Mounted
  /\ \E st \in HookStructures, su \in HookCatalogs :
       /\ <<st, su>> # <<hook.structure, hook.substructures>>
       /\ hook' = [hook EXCEPT !.structure = st, !.substructures = su]
  /\ UNCHANGED <<parserVars, invocations, inFlight, uiVars>>

structureChanged == hook.lastStructureRef # Some(hook.structure)
substructuresChanged == hook.lastSubstructuresRef # Some(hook.substructures)
fileDataChanged == hook.lastFileDataRef # hook.fileData

\* the effect body when something changed: the refs are updated and
\* parseFile() runs up to its await, or through its else branch
Effect ==
  /\ structureChanged \/ substructuresChanged \/ fileDataChanged
  /\ LET updated == [hook EXCEPT !.lastStructureRef = Some(hook.structure),
                                 !.lastSubstructuresRef = Some(hook.substructures),
                                 !.lastFileDataRef = hook.fileData]
     IN  IF hook.fileData # Null /\ Len(hook.structure) > 0
         THEN /\ Len(inFlight) < MaxInFlight
              /\ hook' = updated
              /\ inFlight' = Append(inFlight,
                                    [parser |-> BinaryParser(hook.fileData[1], hook.substructures),
                                     fields |-> hook.structure])
         ELSE /\ hook' = [updated EXCEPT !.parsedFields = <<>>]
              /\ inFlight' = inFlight
  /\ UNCHANGED <<parserVars, invocations, uiVars>>

RemoveAt(seq, p) == SubSeq(seq, 1, p - 1) \o SubSeq(seq, p + 1, Len(seq))

\* const results = await parser.parseStructure(...); setParsedFields(results)
PassResolves ==
  /\ \E p \in 1..Len(inFlight) :
       LET outcome == parseStructure(inFlight[p].parser, inFlight[p].fields)
       IN  /\ ~IsRejected(outcome)
           /\ hook' = [hook EXCEPT !.parsedFields = outcome.results]
           /\ inFlight' = RemoveAt(inFlight, p)
  /\ UNCHANGED <<parserVars, invocations, uiVars>>

\* catch (error) { setParsedFields([]) }
PassRejects ==
  /\ \E p \in 1..Len(inFlight) :
       /\ IsRejected(parseStructure(inFlight[p].parser, inFlight[p].fields))
       /\ hook' = [hook EXCEPT !.parsedFields = <<>>]
       /\ inFlight' = RemoveAt(inFlight, p)
  /\ UNCHANGED <<parserVars, invocations, uiVars>>

NextHook ==
  \/ HandleFileLoad
  \/ SetFileDataUndefined
  \/ PropsChange
  \/ Effect
  \/ PassResolves
  \/ PassRejects

\* useFileHandler under file loads, prop changes and completing passes
SpecHook == InitHook /\ [][NextHook]_vars

(***************************************************************************)
(* Two callers of parseStructure on one BinaryParser instance whose calls  *)
(* overlap.  A call runs synchronously up to its next await: from its      *)
(* entry, and from the completion of the read of a field, through push,    *)
(* parsedFields.set and the next parseField up to that field's read.       *)
(* view is the content of parsedFields that this synchronous part of       *)
(* parseField saw (getFieldLength and getRepeatCount precede the read).    *)
(***************************************************************************)
Callers == {1, 2}

OverlapFiles == {f \in Files : Len(f) = MaxFileSize}

OverlapFieldLists ==
  { << [Field("uint8") EXCEPT !.id = "f1"],
       [Field("uint8") EXCEPT !.id = "f2"],
       [id |-> "f3", type |-> "string", endianness |-> "big", lengthRef |-> "f1"] >>,
    << [Field("uint16") EXCEPT !.id = "f1"],
       [id |-> "f2", type |-> "string", endianness |-> "big", lengthRef |-> "f1"] >> }

NotCalled(fieldList) ==
  [fields |-> fieldList, offset |-> 0, results |-> <<>>, i |-> 1, pc |-> "idle", view |-> <<>>]

InitOverlap ==
  /\ file \in OverlapFiles
  /\ substructures = SubstructureCatalog
  /\ fields = <<>>
  /\ readable = TRUE
  /\ parsedFields = <<>>
  /\ offset = 0
  /\ results = <<>>
  /\ i = 1
  /\ pc = "idle"
  /\ firstResults = Null
  /\ invocations \in [Callers -> {NotCalled(fl) : fl \in OverlapFieldLists}]
  /\ hook = HookUnmounted
  /\ inFlight = <<>>
  /\ panel = PanelUnmounted
  /\ debounced = NoDebounce

\* parseStructure is called: clear, and parseField of the first field up to
\* its read
InvocationStart(c) ==
  /\ invocations[c].pc = "idle"
  /\ parsedFields' = <<>>
  /\ invocations' = [invocations EXCEPT ![c].pc = "loop", ![c].view = <<>>]
  /\ UNCHANGED <<file, substructures, fields, readable, offset, results, i, pc, firstResults>>
  /\ UNCHANGED <<hookVars, uiVars>>

\* the read of the field completes: the rest of the iteration, and the next
\* parseField up to its read
InvocationStep(c) ==
  LET call == invocations[c]
  IN  /\ call.pc = "loop"
      /\ call.i <= Len(call.fields)
      /\ LET field == call.fields[call.i]
             parsed == parseField([Self EXCEPT !.parsedFields = call.view],
                                  field, call.offset, Null)
             registered == MapSet(parsedFields, field.id, parsed)
         IN  /\ ~IsRejected(parsed)
             /\ parsedFields' = registered
             /\ invocations' =
                  [invocations EXCEPT
                     ![c].results = Append(call.results, parsed),
                     ![c].offset = NextOffset(parsed),
                     ![c].i = call.i + 1,
                     ![c].view = registered,
                     ![c].pc = IF ReachedEnd(NextOffset(parsed), fileSize(Self))
                               THEN "break" ELSE "loop"]
      /\ UNCHANGED <<file, substructures, fields, readable, offset, results, i, pc,
                     firstResults>>
      /\ UNCHANGED <<hookVars, uiVars>>

\* the loop of the call is over: return results
InvocationReturn(c) ==
  /\ \/ invocations[c].pc = "break"
     \/ invocations[c].pc = "loop" /\ invocations[c].i > Len(invocations[c].fields)
  /\ invocations' = [invocations EXCEPT ![c].pc = "done"]
  /\ UNCHANGED <<parserVars, hookVars, uiVars>>

NextOverlap ==
  \/ \E c \in Callers : InvocationStart(c)
  \/ \E c \in Callers : InvocationStep(c)
  \/ \E c \in Callers : InvocationReturn(c)

\* overlapping parseStructure calls on one instance
SpecOverlap == InitOverlap /\ [][NextOverlap]_vars

(***************************************************************************)
(* hooks/usePanelInteraction: panel.parsedFields is the decoded tree the   *)
(* hook is rendered with, panel.highlightedField its state (Null for       *)
(* undefined).                                                             *)
(***************************************************************************)
\* the tree of the hook's tests: field3 spans bytes 3 to 6 and has a child
\* at byte 5
MockParsedFields ==
  << [definition |-> [id |-> "field1", name |-> "one", type |-> "uint8", endianness |-> "big"],
      value |-> NumberValue(1), rawValue |-> <<1>>, offset |-> 0, length |-> 1],
     [definition |-> [id |-> "field2", name |-> "two", type |-> "uint16", endianness |-> "big"],
      value |-> NumberValue(2), rawValue |-> <<0, 2>>, offset |-> 1, length |-> 2],
     [definition |-> [id |-> "field3", name |-> "three", type |-> "uint32", endianness |-> "big"],
      value |-> NumberValue(3), rawValue |-> <<0, 0, 0, 3>>, offset |-> 3, length |-> 4,
      children |->
        << [definition |-> [id |-> "child1", name |-> "child", type |-> "uint8",
                            endianness |-> "big"],
            value |-> NumberValue(4), rawValue |-> <<4>>, offset |-> 5, length |-> 1] >>] >>

\* the field lists whose decoded trees the hook is rendered with
PanelFieldLists ==
  InlineStructLists
  \cup { << [FieldPool[8] EXCEPT !.id = FieldId(1)] >>,
         << [FieldPool[1] EXCEPT !.id = FieldId(1)], [FieldPool[8] EXCEPT !.id = FieldId(2)] >>,
         << [FieldPool[17] EXCEPT !.id = FieldId(1)] >> }

\* the files whose decoded trees the hook is rendered with
PanelFiles == HookFiles \cup {<<0, 0, 2>>}

\* what useFileHandler hands over: the trees parseStructure returns
DecodedTrees ==
  { parseStructure(BinaryParser(fileData, SubstructureCatalog), fieldList).results :
      fileData \in PanelFiles, fieldList \in PanelFieldLists }

PanelTrees == {MockParsedFields} \cup DecodedTrees

\* the byte offsets of the hex view that are clicked
PanelOffsets == 0..7

PanelIds == {"field2", "f1"}

InitPanel ==
  /\ file = <<>>
  /\ substructures = SubstructureCatalog
  /\ fields = <<>>
  /\ readable = TRUE
  /\ parsedFields = <<>>
  /\ offset = 0
  /\ results = <<>>
  /\ i = 1
  /\ pc = "idle"
  /\ firstResults = Null
  /\ invocations = NoInvocations
  /\ hook = HookUnmounted
  /\ inFlight = <<>>
  /\ panel \in {[PanelUnmounted EXCEPT !.parsedFields = tree] : tree \in PanelTrees}
  /\ debounced = NoDebounce

\* handleFieldClick(fieldId)
HandleFieldClick ==
  /\ \E fieldId \in PanelIds :
       panel' = [panel EXCEPT !.highlightedField = Some(fieldId),
                              !.lastOffsetClick = Null,
                              !.highlightedBefore = Null]
  /\ UNCHANGED <<parserVars, invocations, hookVars, debounced>>

RECURSIVE findFieldAtOffset(_, _)
\* the field found, or Null for undefined
findFieldAtOffset(fieldList, o) ==
  IF fieldList = <<>> THEN Null
  ELSE LET field == Head(fieldList)
       IN  IF o >= field.offset /\ o < field.offset + field.length
           THEN IF Has(field, "children")
                   /\ findFieldAtOffset(field.children, o) # Null
                THEN findFieldAtOffset(field.children, o)
                ELSE Some(field)
           ELSE findFieldAtOffset(Tail(fieldList), o)

\* handleOffsetClick(offset)
HandleOffsetClick ==
  /\ \E o \in PanelOffsets :
       LET field == findFieldAtOffset(panel.parsedFields, o)
       IN  panel' = [panel EXCEPT
                       !.highlightedField = IF field # Null
                                            THEN Some(field[1].definition.id) ELSE @,
                       !.lastOffsetClick = Some(o),
                       !.highlightedBefore = panel.highlightedField]
  /\ UNCHANGED <<parserVars, invocations, hookVars, debounced>>

NextPanel ==
  \/ HandleFieldClick
  \/ HandleOffsetClick

\* clicks on the structure panel and on the hex view
SpecPanel == InitPanel /\ [][NextPanel]_vars

(***************************************************************************)
(* debounce(func, wait): debounced.timeout is `let timeout`, .timers the   *)
(* timers of the host that have not fired (setTimeout adds one, due wait   *)
(* after now; clearTimeout removes one), .now the clock, .log the calls of *)
(* the returned function and the invocations of func in the order they     *)
(* happen.  The argument of call number n is n.                            *)
(***************************************************************************)
MaxCalls == 3
MaxTime == 5

WaitChoices == {1, 2}

InitDebounce ==
  /\ file = <<>>
  /\ substructures = SubstructureCatalog
  /\ fields = <<>>
  /\ readable = TRUE
  /\ parsedFields = <<>>
  /\ offset = 0
  /\ results = <<>>
  /\ i = 1
  /\ pc = "idle"
  /\ firstResults = Null
  /\ invocations = NoInvocations
  /\ hook = HookUnmounted
  /\ inFlight = <<>>
  /\ panel = PanelUnmounted
  /\ debounced \in {[NoDebounce EXCEPT !.wait = wait] : wait \in WaitChoices}

CallsMade == Cardinality({e \in 1..Len(debounced.log) : debounced.log[e].kind = "call"})

\* the returned function without clearTimeout
DebouncedCallKeepsTimer ==
  /\ CallsMade < MaxCalls
  /\ LET args == CallsMade + 1
     IN  debounced' =
           [debounced EXCEPT
              !.timers = @ \cup {[id |-> debounced.nextId,
                                  due |-> debounced.now + debounced.wait,
                                  args |-> args]},
              !.timeout = Some(debounced.nextId),
              !.nextId = @ + 1,
              !.log = Append(@, [kind |-> "call", at |-> debounced.now, args |-> args])]
  /\ UNCHANGED <<parserVars, invocations, hookVars, panel>>

\* the returned function is called
DebouncedCall ==
  /\ CallsMade < MaxCalls
  /\ LET args == CallsMade + 1
         kept == IF debounced.timeout # Null
                 THEN {t \in debounced.timers : t.id # debounced.timeout[1]}
                 ELSE debounced.timers
     IN  debounced' =
           [debounced EXCEPT
              !.timers = kept \cup {[id |-> debounced.nextId,
                                     due |-> debounced.now + debounced.wait,
                                     args |-> args]},
              !.timeout = Some(debounced.nextId),
              !.nextId = @ + 1,
              !.log = Append(@, [kind |-> "call", at |-> debounced.now, args |-> args])]
  /\ UNCHANGED <<parserVars, invocations, hookVars, panel>>

\* a timer that is due fires: func(...args)
TimerFires ==
  /\ \E t \in debounced.timers :
       /\ t.due <= debounced.now
       /\ debounced' =
            [debounced EXCEPT
               !.timers = @ \ {t},
               !.log = Append(@, [kind |-> "invoke", at |-> debounced.now, args |-> t.args])]
  /\ UNCHANGED <<parserVars, invocations, hookVars, panel>>

\* a millisecond passes; a timer that is due may fire later than it is due
Tick ==
  /\ debounced.now < MaxTime
  /\ debounced' = [debounced EXCEPT !.now = @ + 1]
  /\ UNCHANGED <<parserVars, invocations, hookVars, panel>>

NextDebounce ==
  \/ DebouncedCall
  \/ TimerFires
  \/ Tick

\* calls of a debounced function over time
SpecDebounce == InitDebounce /\ [][NextDebounce]_vars

(***************************************************************************)
(* Properties                                                              *)
(***************************************************************************)
RECURSIVE Nodes(_)
\* every ParsedField of a list of trees, parents before children
Nodes(list) ==
  IF list = <<>> THEN <<>>
  ELSE LET h == Head(list)
       IN  <<h>> \o (IF Has(h, "children") THEN Nodes(h.children) ELSE <<>>)
                 \o Nodes(Tail(list))

End(parsed) == parsed.offset + parsed.length

\* the bytes of the file from offset o (inside the file) of length n >= 0,
\* cut at the end of the file
BytesAt(o, n) == SubSeq(file, o + 1, Min(o + n, Len(file)))

\* a node that is the parent of repeated instances
IsRepeatedParent(node) ==
  /\ Has(node, "children")
  /\ node.children # <<>>
  /\ node.children[1].definition.id = node.definition.id \o "[0]"

RECURSIVE DescriptorNodes(_)
\* the nodes decoded from a descriptor of a field list (top level, template,
\* inline children): every node but the instances of a repeated field
DescriptorNodes(list) ==
  IF list = <<>> THEN <<>>
  ELSE LET h == Head(list)
       IN  <<h>> \o (IF Has(h, "children") /\ ~IsRepeatedParent(h)
                     THEN DescriptorNodes(h.children) ELSE <<>>)
                 \o DescriptorNodes(Tail(list))

\* the id ref names a top-level field decoded before field k, with a number
Resolves(k, ref) ==
  \E j \in 1..(k - 1) : fields[j].id = ref /\ results[j].value.kind = "number"

ResolvedValue(k, ref) ==
  results[CHOOSE j \in 1..(k - 1) : fields[j].id = ref].value.n

StaticLength(d) ==
  IF Has(d, "length") THEN d.length
  ELSE IF DATA_TYPES[d.type].size # Null THEN DATA_TYPES[d.type].size[1]
  ELSE 1

\* the requested length of descriptor d while top-level field k is decoded
RequestedLength(k, d) ==
  IF Has(d, "lengthRef") /\ Resolves(k, d.lengthRef) THEN ResolvedValue(k, d.lengthRef)
  ELSE StaticLength(d)

\* the repeat count of descriptor d while top-level field k is decoded
RepeatCount(k, d) ==
  IF Has(d, "repeatRef") /\ Resolves(k, d.repeatRef) THEN ResolvedValue(k, d.repeatRef)
  ELSE IF Has(d, "repeats") /\ d.repeats # 0 THEN d.repeats
  ELSE 1

IsSubstructureField(d) ==
  d.type = "struct" /\ Has(d, "substructureRef") /\ d.substructureRef # ""

\* a result of the primitive path that is a single value
IsPrimitiveSingle(node) ==
  /\ node.definition.type # "script"
  /\ ~IsSubstructureField(node.definition)
  /\ ~Has(node, "children")
  /\ node.offset < Len(file)

Sequential(siblings) ==
  \A k \in 2..Len(siblings) :
    ~Has(siblings[k].definition, "offset") => siblings[k].offset = End(siblings[k - 1])

\* C1: in every sibling sequence of the decoded tree (top level, children of
\* a substructure, of an inline struct, of a repeated field) a field whose
\* descriptor has no explicit offset starts where the previous sibling ends,
\* and such a first top-level field starts at offset 0.
C1_SiblingsAreSequential ==
  LET nodes == Nodes(results)
  IN  /\ Sequential(results)
      /\ (results # <<>> /\ ~Has(results[1].definition, "offset")) => results[1].offset = 0
      /\ \A m \in 1..Len(nodes) :
           Has(nodes[m], "children") => Sequential(nodes[m].children)

C1_Witness ==
  /\ pc = "done"
  /\ Len(results) = 2
  /\ results[2].offset = End(results[1])
  /\ results[2].offset > 0
  /\ Has(results[2], "children")
  /\ Len(results[2].children) = 2
  /\ results[2].children[2].offset > results[2].children[1].offset

\* C2: a fixed-size kind of size s with neither length nor lengthRef, decoded
\* at an offset o of the source with 0 < sourceSize - o < s, gives value
\* null, length s, no children, and as rawValue exactly the sourceSize - o
\* bytes from o to the end of the source.
C2_InsufficientData ==
  LET nodes == Nodes(results)
  IN  \A m \in 1..Len(nodes) :
        LET node == nodes[m]
            d == node.definition
            size == DATA_TYPES[d.type].size
            remaining == Len(file) - node.offset
        IN  ( /\ size # Null
              /\ ~Has(d, "length") /\ ~Has(d, "lengthRef")
              /\ node.offset >= 0
              /\ 0 < remaining /\ remaining < size[1] )
            => /\ node.value = NullValue
               /\ node.length = size[1]
               /\ ~Has(node, "children")
               /\ Len(node.rawValue) = remaining
               /\ node.rawValue = SubSeq(file, node.offset + 1, Len(file))

C2_Witness ==
  /\ pc = "done"
  /\ Len(results) = 1
  /\ results[1].definition.type = "uint32"
  /\ results[1].offset = 1 /\ Len(file) = 3
  /\ results[1].value = NullValue
  /\ results[1].length = 4
  /\ Len(results[1].rawValue) = 2

\* C3: the length reported by a single-value result of the primitive path
\* (decoded inside the source) is the requested length: the numeric value of
\* the already decoded field named by lengthRef if there is one, else the
\* descriptor's length, else the fixed size of the type, else 1; also when
\* fewer bytes were readable.
C3_RequestedLength ==
  \A k \in 1..Len(results) :
    LET nodes == Nodes(<<results[k]>>)
    IN  \A m \in 1..Len(nodes) :
          IsPrimitiveSingle(nodes[m])
          => nodes[m].length = RequestedLength(k, nodes[m].definition)

\* a lengthRef that wins over the static length, with fewer bytes readable
C3_Witness ==
  /\ pc = "done"
  /\ Len(results) = 2
  /\ results[1].value = NumberValue(254)
  /\ Has(results[2].definition, "lengthRef") /\ Has(results[2].definition, "length")
  /\ results[2].definition.length = 2
  /\ results[2].offset = 1
  /\ results[2].length = 254
  /\ Len(results[2].rawValue) < 254

\* the case of C4: a fixed-size kind of size s, no explicit offset, a repeat
\* count N > 1, decoded at an offset o of the source with N x s bytes left
C4_Case(k, node) ==
  LET d == node.definition
      size == DATA_TYPES[d.type].size
  IN  /\ size # Null
      /\ ~Has(d, "offset")
      /\ RepeatCount(k, d) > 1
      /\ node.offset >= 0
      /\ Len(file) - node.offset >= RepeatCount(k, d) * size[1]

C4_Result(k, node) ==
  LET d == node.definition
      size == DATA_TYPES[d.type].size[1]
      N == RepeatCount(k, d)
  IN  /\ Has(node, "children")
      /\ Len(node.children) = N
      /\ \A c \in 1..N :
           LET child == node.children[c]
           IN  /\ child.offset = node.offset + (c - 1) * size
               /\ child.rawValue = BytesAt(child.offset, size)
               /\ child.value = DecodeValue(d, BytesAt(child.offset, size))
               /\ ~Has(child, "children")
      /\ node.value = ArrayValue([c \in 1..N |-> node.children[c].value])
      /\ node.length = N * size

\* C4 as stated: every fixed-size field in that case yields N instances
\* spaced by the size of the type.
C4_Original ==
  \A k \in 1..Len(results) :
    LET nodes == DescriptorNodes(<<results[k]>>)
    IN  \A m \in 1..Len(nodes) : C4_Case(k, nodes[m]) => C4_Result(k, nodes[m])

\* C4 amended: a fixed-size field in that case whose requested length is the
\* size of its type yields one field with N children, child i at
\* o + i x size holding the value decoded there, value the array of the
\* children's values, length N x size, and no child has children.
C4_RepeatedFixedSize ==
  \A k \in 1..Len(results) :
    LET nodes == DescriptorNodes(<<results[k]>>)
    IN  \A m \in 1..Len(nodes) :
          ( /\ C4_Case(k, nodes[m])
            /\ RequestedLength(k, nodes[m].definition)
                 = DATA_TYPES[nodes[m].definition.type].size[1] )
          => C4_Result(k, nodes[m])

\* a repeat count taken from repeatRef, two instances at successive offsets
C4_Witness ==
  /\ pc = "done"
  /\ Len(results) = 2
  /\ Has(results[2].definition, "repeatRef")
  /\ results[1].value = NumberValue(2)
  /\ C4_Case(2, results[2])
  /\ Len(results[2].children) = 2
  /\ results[2].children[2].offset = 2
  /\ results[2].length = 2

\* C5: a struct field whose substructureRef names a template, decoded at an
\* offset of the source, has as children the results of the template's
\* fields in order, decoded from the field's offset on until the running
\* offset reaches the end of the source; its value is the array of the
\* children's values, its length the span of the children clamped to the
\* bytes left from its offset, its rawValue that many bytes from its offset.
C5_Substructure ==
  LET nodes == Nodes(results)
  IN  \A m \in 1..Len(nodes) :
        LET node == nodes[m]
            d == node.definition
            template == FindSubstructure(substructures, d.substructureRef)
        IN  ( /\ IsSubstructureField(d)
              /\ template # Null
              /\ node.offset >= 0 /\ node.offset < Len(file) )
            => LET tf == template[1].fields
                   ch == node.children
                   span == IF ch = <<>> THEN 0 ELSE End(ch[Len(ch)]) - node.offset
               IN  /\ Has(node, "children")
                   /\ Len(ch) <= Len(tf)
                   /\ \A c \in 1..Len(ch) : ch[c].definition = tf[c]
                   /\ (ch # <<>> /\ ~Has(tf[1], "offset")) => ch[1].offset = node.offset
                   /\ Sequential(ch)
                   /\ \A c \in 1..(Len(ch) - 1) : End(ch[c]) < Len(file)
                   /\ Len(ch) < Len(tf) => (ch # <<>> /\ End(ch[Len(ch)]) >= Len(file))
                   /\ node.value = ArrayValue([c \in 1..Len(ch) |-> ch[c].value])
                   /\ node.length = Min(span, Len(file) - node.offset)
                   /\ node.length >= 0 => node.rawValue = BytesAt(node.offset, node.length)

\* the template [uint8, uint16] over three bytes, and over two (clamped)
C5_Witness ==
  /\ pc = "done"
  /\ Len(results) = 1
  /\ IsSubstructureField(results[1].definition)
  /\ results[1].definition.substructureRef = "sub1"
  /\ Len(file) = 3
  /\ results[1].length = 3
  /\ Len(results[1].children) = 2
  /\ results[1].children[1].value = NumberValue(file[1])
  /\ results[1].children[2].value = NumberValue(file[2] * 256 + file[3])

\* C6: inside a substructure a lengthRef resolves against the fields of that
\* substructure instance decoded before it: the id of an earlier sibling
\* gives that sibling's numeric value, and the id of a decoded field of the
\* outer structure does not resolve (the static fallback is used).
C6_ReferencesAreScoped ==
  LET nodes == Nodes(results)
  IN  \A m \in 1..Len(nodes) :
        LET node == nodes[m]
        IN  ( /\ IsSubstructureField(node.definition)
              /\ Has(node, "children") )
            => \A c \in 1..Len(node.children) :
                 LET child == node.children[c]
                     d == child.definition
                     sibling == {j \in 1..(c - 1) :
                                   /\ node.children[j].definition.id = d.lengthRef
                                   /\ node.children[j].value.kind = "number"}
                 IN  (IsPrimitiveSingle(child) /\ Has(d, "lengthRef"))
                     => child.length =
                          IF sibling # {}
                          THEN node.children[CHOOSE j \in sibling : TRUE].value.n
                          ELSE StaticLength(d)

\* C7: the ReferenceIndex holds exactly the results of the top-level
\* descriptors decoded so far in this pass, keyed by their ids, in decode
\* order; no child and no repeated instance is registered.
C7_IndexHoldsTopLevelOnly ==
  parsedFields = [k \in 1..Len(results) |-> [key |-> fields[k].id, value |-> results[k]]]

\* two registered top-level fields, the second one with children that are
\* not in the index
C7_Witness ==
  /\ pc = "done"
  /\ Len(parsedFields) = 2
  /\ Has(results[2], "children") /\ results[2].children # <<>>
  /\ MapGet(parsedFields, results[2].children[1].definition.id) = Null
  /\ MapGet(parsedFields, "f2") = Some(results[2])

\* a script that is malformed, throws, or returns something that is not an
\* object with value and length
IsFailingScript(d) ==
  /\ d.type = "script"
  /\ Has(d, "script")
  /\ d.script \in {"return {", "throw new Error('boom');", "throw 'boom';",
                   "throw null;", "return 5;", "return { value: 1 };"}

\* C8: a failing script field never aborts the pass; its result is an error
\* string with length 0 and empty rawValue at the field's offset, and the
\* next sibling is decoded, from that same offset.
C8_ScriptContainment ==
  /\ (pc = "rejected" /\ i <= Len(fields)) => ~IsFailingScript(fields[i])
  /\ \A k \in 1..Len(results) :
       (IsFailingScript(fields[k]) /\ results[k].offset < Len(file))
       => /\ results[k].value.kind = "string"
          /\ results[k].length = 0
          /\ results[k].rawValue = <<>>
          /\ (pc = "done" /\ k < Len(fields))
             => /\ Len(results) > k
                /\ ~Has(fields[k + 1], "offset") => results[k + 1].offset = results[k].offset

\* C9: parseStructure never rejects.
C9_NeverRejects == pc # "rejected"

\* C10: the results are those of a prefix of the descriptors, in order; the
\* running offset after a field is result.offset + result.length; the loop
\* goes on to the next descriptor only while that offset is below the source
\* size, and on return descriptors are missing exactly when it was reached.
C10_PrefixUntilEndOfData ==
  LET n == Len(results)
  IN  /\ n <= Len(fields)
      /\ \A k \in 1..n : results[k].definition = fields[k]
      /\ n > 0 => offset = End(results[n])
      /\ \A k \in 1..(n - 1) : End(results[k]) < Len(file)
      /\ pc = "done" =>
           IF n > 0 /\ End(results[n]) >= Len(file) THEN TRUE ELSE n = Len(fields)
      /\ pc = "done" /\ n < Len(fields) => (n > 0 /\ End(results[n]) >= Len(file))

\* a pass that stops before its last descriptor
C10_Witness ==
  /\ pc = "done"
  /\ Len(fields) = 2
  /\ Len(results) = 1
  /\ End(results[1]) = Len(file)

\* C11: a parseStructure call that returns after an earlier call on the same
\* instance (same field list, catalog and bytes) returns a tree equal to the
\* one the first call returned.
C11_Idempotent ==
  (pc = "done" /\ firstResults # Null) => results = firstResults[1]

\* a second pass, about to return, over a field list whose second field
\* takes its length from the first, the index filled again
C11_Witness ==
  /\ pc \in {"loop", "break"}
  /\ firstResults # Null
  /\ Len(results) = 2
  /\ results = firstResults[1]
  /\ Has(fields[2], "lengthRef")
  /\ results[1].value = NumberValue(2)
  /\ results[2].length = 2
  /\ Len(parsedFields) = 2

\* what the parseFile() call started last leaves in parsedFields
LatestResult ==
  IF hook.lastFileDataRef = Null \/ Len(hook.lastStructureRef[1]) = 0 THEN <<>>
  ELSE LET outcome == parseStructure(
                        BinaryParser(hook.lastFileDataRef[1], hook.lastSubstructuresRef[1]),
                        hook.lastStructureRef[1])
       IN  IF IsRejected(outcome) THEN <<>> ELSE outcome.results

\* C12: once every started pass has completed, parsedFields is the result of
\* the pass started last, and it is empty when that last start found no
\* file or no fields.
C12_LatestPassWins ==
  (hook.lastStructureRef # Null /\ inFlight = <<>>) => hook.parsedFields = LatestResult

\* the entries a call has registered so far
OwnEntries(call) ==
  [k \in 1..Len(call.results) |-> [key |-> call.fields[k].id, value |-> call.results[k]]]

\* C13: while a parseStructure call is in flight the index holds exactly the
\* entries that call registered (none removed, none of another call), and
\* the references of the field it is decoding are resolved against them.
C13_IndexOwnedByOnePass ==
  \A c \in DOMAIN invocations :
    LET call == invocations[c]
    IN  call.pc \in {"loop", "break"}
        => /\ parsedFields = OwnEntries(call)
           /\ call.i <= Len(call.fields) => call.view = OwnEntries(call)

\* the static repeat count of a descriptor
StaticRepeats(d) == IF Has(d, "repeats") /\ d.repeats # 0 THEN d.repeats ELSE 1

\* C14: for a top-level field, a lengthRef or repeatRef that names no field
\* decoded before it with a plain number (a later sibling, the field itself,
\* an unknown id, a null, string, label list or bigint value) is no
\* override: the length is the static one, the field is repeated exactly
\* when its static repeats say so, and the pass does not fail on the field.
C14_UnresolvedReference ==
  /\ \A k \in 1..Len(results) :
       LET node == results[k]
           d == node.definition
           size == DATA_TYPES[d.type].size
           readLength == Min(RequestedLength(k, d), Len(file) - node.offset)
       IN  /\ ( /\ IsPrimitiveSingle(node)
                /\ Has(d, "lengthRef") /\ ~Resolves(k, d.lengthRef) )
              => node.length = StaticLength(d)
           /\ ( /\ d.type \notin {"script", "struct"}
                /\ node.offset < Len(file)
                /\ Has(d, "repeatRef") /\ ~Resolves(k, d.repeatRef) )
              => ( Has(node, "children")
                   <=> /\ StaticRepeats(d) > 1
                       /\ ~(size # Null /\ readLength < size[1]) )
  /\ (pc = "rejected" /\ i <= Len(fields))
     => ~(Has(fields[i], "lengthRef") \/ Has(fields[i], "repeatRef"))

\* a lengthRef to a field whose value became a list of bit labels, and the
\* static length 2 used
C14_Witness ==
  /\ pc = "done"
  /\ Len(results) = 2
  /\ results[1].value.kind = "array"
  /\ Has(fields[2], "lengthRef") /\ fields[2].lengthRef = "f1"
  /\ fields[2].length = 2
  /\ results[2].length = 2

\* a single value of the primitive path that was decoded from enough bytes
IsDecodedSingle(node) ==
  /\ IsPrimitiveSingle(node)
  /\ node.offset >= 0
  /\ ~IsThrown(parseValue(node.definition, node.rawValue))
  /\ LET size == DATA_TYPES[node.definition.type].size
     IN  size # Null => Len(node.rawValue) >= size[1]

\* the entries of the value map of d whose value is the raw value
MappingHits(d, raw) ==
  IF Has(d, "valueMap") THEN {k \in 1..Len(d.valueMap) : d.valueMap[k].value = raw}
  ELSE {}

\* C15: the value of a decoded field is the description of the first entry
\* of valueMap whose value equals the raw value (same type, same value), the
\* raw value when there is none; bit descriptions are applied to it only when
\* it is still a number, so a mapped value stays the description.  A null
\* value stays null also when valueMap has an entry for null.
C15_MappingThenBits ==
  LET nodes == Nodes(results)
  IN  \A m \in 1..Len(nodes) :
        LET node == nodes[m]
            d == node.definition
            raw == parseValue(d, node.rawValue)
            hits == MappingHits(d, raw)
            first == CHOOSE k \in hits : \A j \in hits : k <= j
            mapped == IF hits # {} THEN StringValue(d.valueMap[first].description) ELSE raw
        IN  /\ IsDecodedSingle(node)
               => node.value = IF mapped.kind = "number"
                               THEN applyBitDescriptions(d, mapped) ELSE mapped
            /\ (IsPrimitiveSingle(node) /\ ~IsDecodedSingle(node) /\ node.offset >= 0)
               => node.value = NullValue

\* a raw value 2 that has two entries in the map and a label for its bit 1
C15_Witness ==
  /\ pc = "done"
  /\ Len(results) = 1
  /\ Has(fields[1], "valueMap") /\ Has(fields[1], "bitDescriptions")
  /\ Len(fields[1].valueMap) = 3
  /\ results[1].rawValue = <<2>>
  /\ results[1].value = StringValue("two")

\* bit b (0..7) of a byte
BitOfByte(byte, b) == (byte \div (2 ^ b)) % 2

\* C16: for a one-byte integer field with bit descriptions and no value map
\* the value is the list of the labels of the entries, in list order, taking
\* the set-label of an entry whose bit is 1 when that label is not empty and
\* the unset-label of an entry whose bit is 0 when it has a non-empty one;
\* when no entry gives a label the value is the number.
C16_BitLabelsInListOrder ==
  LET nodes == Nodes(results)
  IN  \A m \in 1..Len(nodes) :
        LET node == nodes[m]
            d == node.definition
            byte == node.rawValue[1]
            GivesLabel(bd) ==
              IF BitOfByte(byte, bd.bitIndex) = 1 THEN bd.descriptionIfSet # ""
              ELSE Has(bd, "descriptionIfUnset") /\ bd.descriptionIfUnset # ""
            LabelOf(bd) ==
              IF BitOfByte(byte, bd.bitIndex) = 1 THEN bd.descriptionIfSet
              ELSE bd.descriptionIfUnset
            chosen == SelectSeq(d.bitDescriptions, GivesLabel)
            labels == [k \in 1..Len(chosen) |-> StringValue(LabelOf(chosen[k]))]
        IN  ( /\ IsDecodedSingle(node)
              /\ d.type \in {"uint8", "int8"}
              /\ Has(d, "bitDescriptions") /\ ~Has(d, "valueMap") )
            => node.value = IF labels = <<>>
                            THEN parseValue(d, node.rawValue)
                            ELSE ArrayValue(labels)

\* byte 0xFE against the list (7, 1, 0, 1): set, set, unset, set without label
C16_Witness ==
  /\ pc = "done"
  /\ Len(results) = 1
  /\ fields[1].type = "int8"
  /\ Has(fields[1], "bitDescriptions") /\ Len(fields[1].bitDescriptions) = 4
  /\ results[1].rawValue = <<254>>
  /\ results[1].value = ArrayValue(<<StringValue("hi"), StringValue("b1"), StringValue("even")>>)

\* the integer whose bytes, most significant first, are bytes: each byte
\* weighs 256 times the next one, the first one counting from -128 when the
\* kind is signed
RECURSIVE Weighted(_, _)
Weighted(acc, bytes) ==
  IF bytes = <<>> THEN acc ELSE Weighted(acc * 256 + Head(bytes), Tail(bytes))

IntegerOf(bytes, signed) ==
  LET top == IF signed /\ bytes[1] >= 128 THEN bytes[1] - 256 ELSE bytes[1]
  IN  Weighted(top, Tail(bytes))

IntegerKinds == {"uint8", "uint16", "uint32", "int8", "int16", "int32"}

\* C17: an integer field of width w with w bytes left at its offset has as
\* value the integer formed by the w bytes of the source at that offset,
\* most significant byte first for big and last for little, two's
\* complement for the signed kinds; the fields follow each other.
C17_IntegerDecoding ==
  /\ \A k \in 1..Len(results) :
       LET node == results[k]
           d == node.definition
           w == DATA_TYPES[d.type].size[1]
           bytes == SubSeq(file, node.offset + 1, node.offset + w)
           msbFirst == IF d.endianness = "little"
                       THEN [j \in 1..w |-> bytes[w + 1 - j]] ELSE bytes
       IN  (d.type \in IntegerKinds /\ node.offset + w <= Len(file))
           => /\ node.value = NumberValue(IntegerOf(msbFirst, d.type \in {"int8", "int16", "int32"}))
              /\ node.length = w
              /\ node.offset = IF k = 1 THEN 0 ELSE End(results[k - 1])

\* the two byte strings of the tests give the same three values
C17_Witness ==
  /\ pc = "done"
  /\ Len(results) = 3
  /\ \/ file = <<1, 2, 3, 4, 5, 6, 7>> /\ fields[1].endianness = "big"
     \/ file = <<1, 3, 2, 7, 6, 5, 4>> /\ fields[1].endianness = "little"
  /\ fields[1].type = "uint8"
  /\ results[1].value = NumberValue(1)
  /\ results[2].value = NumberValue(515)
  /\ results[3].value = NumberValue(67438087)
  /\ results[3].offset = 3

\* a struct field whose substructureRef names no template of the catalog
IsMissingTemplate(d) ==
  IsSubstructureField(d) /\ FindSubstructure(substructures, d.substructureRef) = Null

\* C18: a struct field whose template is missing decodes, at its explicit
\* offset or else at the running offset, to null with empty rawValue, length
\* 0 and no children; the pass does not fail on it, goes on to the next
\* sibling when that offset is inside the source, and a next sibling
\* without explicit offset starts at that same offset.
C18_MissingTemplate ==
  /\ \A k \in 1..Len(results) :
       IsMissingTemplate(fields[k])
       => /\ results[k].value = NullValue
          /\ results[k].rawValue = <<>>
          /\ results[k].length = 0
          /\ ~Has(results[k], "children")
          /\ results[k].offset = IF Has(fields[k], "offset") THEN fields[k].offset
                                 ELSE IF k = 1 THEN 0 ELSE End(results[k - 1])
          /\ (pc = "done" /\ k < Len(fields) /\ results[k].offset < Len(file))
             => Len(results) > k
          /\ (k < Len(results) /\ ~Has(fields[k + 1], "offset"))
             => results[k + 1].offset = results[k].offset
  /\ (pc = "rejected" /\ i <= Len(fields)) => ~IsMissingTemplate(fields[i])
  /\ LET nodes == Nodes(results)
     IN  \A m \in 1..Len(nodes) :
           IsMissingTemplate(nodes[m].definition)
           => /\ nodes[m].value = NullValue /\ nodes[m].length = 0
              /\ nodes[m].rawValue = <<>> /\ ~Has(nodes[m], "children")

\* the field at explicit offset 1 inside the source and its sibling decoded
\* from offset 1
C18_Witness ==
  /\ pc = "done"
  /\ Len(results) = 2
  /\ IsMissingTemplate(fields[1])
  /\ results[1].offset = 1
  /\ results[2].offset = 1
  /\ results[2].value = NumberValue(file[2])

\* C19: a field whose descriptor has an explicit offset is decoded at that
\* offset, and a next sibling without explicit offset starts at that offset
\* plus the length of the field.
C19_ExplicitOffset ==
  /\ LET nodes == Nodes(results)
     IN  \A m \in 1..Len(nodes) :
           Has(nodes[m].definition, "offset")
           => nodes[m].offset = nodes[m].definition.offset
  /\ \A k \in 1..(Len(results) - 1) :
       (Has(fields[k], "offset") /\ ~Has(fields[k + 1], "offset"))
       => results[k + 1].offset = fields[k].offset + results[k].length

\* a first field at explicit offset 1 (running offset 0) and its sibling at 2
C19_Witness ==
  /\ pc = "done"
  /\ Len(results) = 2
  /\ Has(fields[1], "offset") /\ fields[1].offset = 1
  /\ results[1].offset = 1 /\ results[1].length = 1
  /\ ~Has(fields[2], "offset")
  /\ results[2].offset = 2
  /\ results[2].value = NumberValue(file[3])

\* what the script of a field returns as length, when it returns an object
\* with value and length
ReturnedLength(d) == RunScript(d.script).result.length

ReturnsValueAndLength(d) ==
  /\ d.type = "script"
  /\ Has(d, "script")
  /\ RunScript(d.script).type = "return"
  /\ RunScript(d.script).result.kind = "object"
  /\ Has(RunScript(d.script).result, "value")
  /\ Has(RunScript(d.script).result, "length")

\* a number from 0 up (NaN is neither below 0 nor from 0 up)
IsNonNegativeNumber(v) == v.kind = "number" /\ v.n # NaN /\ v.n >= 0

\* C20: a script field at offset o inside the source whose script returns
\* {value, length: L}: with L a number from 0 up the result carries the
\* value, the min(L, size - o) bytes from o as rawValue and that amount as
\* length, so o + length is at most the size; with any other L the result
\* is the failure result (error text, length 0, empty rawValue).
C20_ScriptLength ==
  \A k \in 1..Len(results) :
    (ReturnsValueAndLength(fields[k]) /\ results[k].offset >= 0)
    => LET o == results[k].offset
           L == ReturnedLength(fields[k])
       IN  IF o >= Len(file) THEN results[k] = EmptyResult(fields[k], o)
           ELSE IF IsNonNegativeNumber(L)
           THEN /\ results[k].value = RunScript(fields[k].script).result.value
                /\ results[k].length = Min(L.n, Len(file) - o)
                /\ results[k].rawValue = SubSeq(file, o + 1, o + Min(L.n, Len(file) - o))
                /\ o + results[k].length <= Len(file)
           ELSE /\ results[k].value.kind = "string"
                /\ results[k].value.text = "Script Error: Script \"length\" must be a non-negative number"
                /\ results[k].length = 0
                /\ results[k].rawValue = <<>>

\* descriptor d without its repeat attributes
WithoutRepeats(d) == [a \in DOMAIN d \ {"repeats", "repeatRef"} |-> d[a]]

\* the parser as it is when top-level field k is decoded: the index holds
\* the top-level fields before k
SelfAt(k) ==
  [file |-> file, substructures |-> substructures, readable |-> TRUE, depth |-> 0,
   parsedFields |-> MapSetAll(<<>>, SubSeq(results, 1, k - 1))]

\* the running offset when top-level field k is decoded
RunningOffsetAt(k) == IF k = 1 THEN 0 ELSE End(results[k - 1])

\* C23: for a top-level field of a primitive kind the repeat count is the
\* number held by the earlier field that repeatRef names, else repeats, else
\* 1.  With a count of 1 or less the result is that of the descriptor
\* without repeat attributes, a single field without children; with a count
\* above 1 and the bytes of one value at hand the result has the instances
\* as children, at most count of them.
C23_RepeatCount ==
  \A k \in 1..Len(results) :
    LET d == fields[k]
        node == results[k]
        count == RepeatCount(k, d)
        typeSize == DATA_TYPES[d.type].size
    IN  d.type \notin {"script", "struct"}
        => /\ count <= 1
              => /\ ~Has(node, "children")
                 /\ node = [parseField(SelfAt(k), WithoutRepeats(d), RunningOffsetAt(k), Null)
                              EXCEPT !.definition = d]
           /\ ( /\ count > 1
                /\ node.offset >= 0
                /\ node.offset < Len(file)
                /\ typeSize # Null
                   => Min(RequestedLength(k, d), Len(file) - node.offset) >= typeSize[1] )
              => /\ Has(node, "children")
                 /\ Len(node.children) <= count
                 /\ node.value.kind = "array"

\* repeatRef names a field that holds 0 and repeats is 2: one plain byte
C23_Witness ==
  /\ pc = "done"
  /\ Len(results) = 2
  /\ Has(fields[2], "repeatRef") /\ fields[2].repeatRef = "f1"
  /\ Has(fields[2], "repeats") /\ fields[2].repeats = 2
  /\ results[1].value = NumberValue(0)
  /\ ~Has(results[2], "children")
  /\ results[2].offset = 1
  /\ results[2].value = NumberValue(file[2])

\* the descriptor of instance j (from 0) of repeated descriptor d
ItemDef(d, j) == [d EXCEPT !.id = d.id \o "[" \o ToString(j) \o "]"]

IsNullOfNoLength(parsed) == parsed.value = NullValue /\ parsed.length = 0

\* the running offset of the expansion of node after its first j children
RunningAfter(node, j) == IF j = 0 THEN node.offset ELSE End(node.children[j])

C25_InstancesAreSequential ==
  \A k \in 1..Len(results) :
    LET d == fields[k]
        node == results[k]
    IN  (d.type \notin {"script", "struct"} /\ Has(node, "children"))
        => \A j \in 1..Len(node.children) :
             node.children[j].offset = RunningAfter(node, j - 1)

\* a struct field that is decoded through its inline children
IsInlineStruct(d) ==
  d.type = "struct" /\ ~IsSubstructureField(d) /\ Has(d, "children")

\* C26: a top-level struct field with inline children and no substructureRef
\* (and no repeat count above 1), at an offset inside the source, has as
\* children the results of its child descriptors in order, the first at the
\* offset of the field and each next one at the end of the one before (at
\* its own offset when it has an explicit one), up to the first child
\* before which the running offset has reached the size of the source; its
\* length is the end of the last child minus its offset (0 without a
\* child), whatever length the descriptor asks for.
C26_InlineChildren ==
  \A k \in 1..Len(results) :
    LET d == fields[k]
        node == results[k]
        n == Len(node.children)
    IN  ( /\ IsInlineStruct(d)
          /\ RepeatCount(k, d) <= 1
          /\ node.offset >= 0
          /\ node.offset < Len(file) )
        => /\ Has(node, "children")
           /\ n <= Len(d.children)
           /\ \A j \in 1..n :
                /\ RunningAfter(node, j - 1) < Len(file)
                /\ node.children[j].definition = d.children[j]
                /\ node.children[j].offset =
                     IF Has(d.children[j], "offset") THEN d.children[j].offset
                     ELSE RunningAfter(node, j - 1)
           /\ n < Len(d.children) => RunningAfter(node, n) >= Len(file)
           /\ node.length = RunningAfter(node, n) - node.offset

\* a struct field that asks for 2 bytes and has one child of 1 byte: its
\* length is 1, and the next field starts after that byte
C26_Witness ==
  /\ pc = "done"
  /\ Len(results) = 2
  /\ IsInlineStruct(fields[1])
  /\ Has(fields[1], "length") /\ fields[1].length = 2
  /\ Len(results[1].children) = 1
  /\ results[1].children[1].value = NumberValue(file[1])
  /\ results[1].length = 1
  /\ results[2].offset = 1

\* C28: every field of the decoded tree has a length of 0 or more, and a
\* top-level field without explicit offset does not start before the field
\* before it.
C28_LengthsAreNonNegative ==
  /\ LET nodes == Nodes(results)
     IN  \A m \in 1..Len(nodes) : nodes[m].length >= 0
  /\ \A k \in 2..Len(results) :
       ~Has(fields[k], "offset") => results[k].offset >= results[k - 1].offset

\* C30: in the decoded tree the span of every child lies inside the span of
\* its parent.
C30_ChildInsideParent ==
  LET nodes == Nodes(results)
  IN  \A m \in 1..Len(nodes) :
        Has(nodes[m], "children")
        => \A j \in 1..Len(nodes[m].children) :
             /\ nodes[m].offset <= nodes[m].children[j].offset
             /\ End(nodes[m].children[j]) <= End(nodes[m])

\* descriptor d without its length and repeat attributes
WithoutLengthAndRepeats(d) ==
  [a \in DOMAIN d \ {"repeats", "repeatRef", "length", "lengthRef"} |-> d[a]]

\* C29: a top-level field of type script, or of type struct with a
\* substructureRef, decodes to what the same descriptor without repeats,
\* repeatRef, length and lengthRef decodes to (the descriptor carried in
\* the result aside), and the children of a struct field whose template
\* exists are results of the template's fields, one per field at most.
C29_KindBeforeLengthAndRepeats ==
  \A k \in 1..Len(results) :
    LET d == fields[k]
        node == results[k]
        template == FindSubstructure(substructures, d.substructureRef)
    IN  /\ (d.type = "script" \/ IsSubstructureField(d))
           => node = [parseField(SelfAt(k), WithoutLengthAndRepeats(d),
                                 RunningOffsetAt(k), Null)
                        EXCEPT !.definition = d]
        /\ (IsSubstructureField(d) /\ Has(node, "children"))
           => /\ Len(node.children) <= Len(template[1].fields)
              /\ \A j \in 1..Len(node.children) :
                   node.children[j].definition = template[1].fields[j]

\* a template field with repeats 2 over three bytes: the two fields of the
\* template once
C29_Witness ==
  /\ pc = "done"
  /\ Len(file) = 3
  /\ Len(results) = 1
  /\ IsSubstructureField(fields[1])
  /\ Has(fields[1], "repeats") /\ fields[1].repeats = 2
  /\ Len(results[1].children) = 2
  /\ results[1].children[1].definition.id = "s_type"
  /\ results[1].children[2].definition.id = "s_val"
  /\ results[1].length = 3

\* C27: every decode pass that is in its loop comes to return its results.
C27_PassReturns == (pc = "loop") ~> (pc = "done")

\* the decoded fields of the panel's tree, at every depth
PanelNodes == Nodes(panel.parsedFields)

SpanContains(node, o) == o >= node.offset /\ o < node.offset + node.length

\* no field below node has o in its span
IsInnermostAt(node, o) ==
  /\ SpanContains(node, o)
  /\ Has(node, "children")
     => LET below == Nodes(node.children)
        IN  \A m \in 1..Len(below) : ~SpanContains(below[m], o)

\* C21: after handleOffsetClick(o), if the span of some decoded field (at
\* any depth) contains o then highlightedField is the id of such a field
\* that has no field below it whose span contains o; otherwise
\* highlightedField is what it was before the call.
C21_OffsetClickHighlightsInnermost ==
  panel.lastOffsetClick # Null
  => LET o == panel.lastOffsetClick[1]
     IN  IF \E m \in 1..Len(PanelNodes) : SpanContains(PanelNodes[m], o)
         THEN \E m \in 1..Len(PanelNodes) :
                /\ IsInnermostAt(PanelNodes[m], o)
                /\ panel.highlightedField = Some(PanelNodes[m].definition.id)
         ELSE panel.highlightedField = panel.highlightedBefore

\* the most recent call before event e of the log (0 when there is none)
LastCallBefore(e) ==
  LET calls == {c \in 1..(e - 1) : debounced.log[c].kind = "call"}
  IN  IF calls = {} THEN 0 ELSE CHOOSE c \in calls : \A x \in calls : x <= c

\* C22: every invocation of func comes wait or more after the most recent
\* call, with the arguments of that call, and is the only one since that
\* call; the only timer that is pending is that of the most recent call
\* (the timer of a call before it is cancelled); and once no timer is
\* pending the last event is the invocation for the last call, so a burst
\* of calls less than wait apart gives one invocation with the arguments
\* of its last call.
C22_Debounce ==
  LET log == debounced.log
  IN  /\ \A e \in 1..Len(log) :
           log[e].kind = "invoke"
           => /\ LastCallBefore(e) = e - 1
              /\ log[e].at - log[e - 1].at >= debounced.wait
              /\ log[e].args = log[e - 1].args
      /\ \A t \in debounced.timers :
           /\ LastCallBefore(Len(log) + 1) = Len(log)
           /\ t.args = log[Len(log)].args
           /\ t.due = log[Len(log)].at + debounced.wait
      /\ (debounced.timers = {} /\ log # <<>>) => log[Len(log)].kind = "invoke"

\* three calls, each less than wait after the one before, and then one
\* invocation with the arguments of the third
C22_Witness ==
  LET log == debounced.log
  IN  /\ debounced.wait = 2
      /\ Len(log) = 4
      /\ log[1].kind = "call" /\ log[2].kind = "call" /\ log[3].kind = "call"
      /\ log[2].at - log[1].at = 1
      /\ log[3].at - log[2].at = 1
      /\ log[4].kind = "invoke"
      /\ log[4].args = 3
      /\ log[4].at = log[3].at + 2
      /\ debounced.timers = {}

====
